---- MODULE Spec2Model ----
(***************************************************************************)
(* A model of easypy's resilience primitives (easypy/resilience.py): the   *)
(* retry loop, its stop condition and backoff schedules, the resilience /  *)
(* resilient exception swallowing scope and exception_to_boolean; and of   *)
(* easypy/logging.py: console arbitration (ThreadControl), the per-thread  *)
(* logging context and the augmentation of log records.                    *)
(***************************************************************************)
EXTENDS Integers, Sequences, FiniteSets, TLC

\* ------------------------------------------------------------------ bounds
MaxTimes == 3
MaxSleep == 2
MaxBackoffCalls == 6
MaxImplCalls == 2
MaxTickets == 3
MaxDepth == 2
MaxScopes == 2

\* --------------------------------------------------------- log severities
DEBUG == 10
INFO == 20

\* ------------------------------------------------------ exception classes
\* The part of Python's built-in exception hierarchy the code names, plus
\* ValueError/UnicodeError (a class and a subclass of it) and OSError.
ExcClasses ==
    {"BaseException", "Exception", "KeyboardInterrupt", "NameError",
     "AttributeError", "TypeError", "ValueError", "UnicodeError", "OSError"}

Parent(c) ==
    CASE c = "BaseException" -> "BaseException"
      [] c = "Exception" -> "BaseException"
      [] c = "KeyboardInterrupt" -> "BaseException"
      [] c = "UnicodeError" -> "ValueError"
      [] c = "TException" -> "PException"
      [] c = "NotEnoughPeanuts" -> "TException"
      [] c = "Hinted" -> "PException"
      [] c = "AbortedException" -> "BaseException"
      [] c = "GeneratorExit" -> "BaseException"
      [] OTHER -> "Exception"

RECURSIVE issubclass(_, _)
issubclass(c, d) ==
    IF c = d THEN TRUE
    ELSE IF c = "BaseException" THEN FALSE
    ELSE issubclass(Parent(c), d)

\* `except classes as exc` matches: exc is an instance of one of the classes
ExceptMatches(exc, classes) == \E d \in classes : issubclass(exc.type, d)

UNACCEPTABLE_EXCEPTIONS == {"NameError", "AttributeError", "TypeError", "KeyboardInterrupt"}

\* ------------------------------------------------------------- rationals
\* Delays are Python numbers; they are kept exact as normalised fractions.
RECURSIVE GCD(_, _)
GCD(a, b) == IF b = 0 THEN a ELSE GCD(b, a % b)

Rat(n, d) == LET g == GCD(n, d) IN <<n \div g, d \div g>>
RatMul(x, y) == Rat(x[1] * y[1], x[2] * y[2])
RatAdd(x, y) == Rat(x[1] * y[2] + y[1] * x[2], x[2] * y[2])
RatLeq(x, y) == x[1] * y[2] <= y[1] * x[2]
\* Python's min(x, y): the first argument unless the second is smaller
RatMin(x, y) == IF RatLeq(x, y) THEN x ELSE y
Zero == Rat(0, 1)

\* values random.random() is drawn from, all in [0, 1)
RandomValues == {Rat(0, 1), Rat(1, 2), Rat(3, 4)}

\* -------------------------------------------------------------- backoff
\* A `sleep` argument: a plain number (kind "number", held in `initial`)
\* or a backoff object.
Number(x) ==
    [kind |-> "number", initial |-> x, current |-> x, base |-> Rat(1, 1), maximum |-> x]

\* ExponentialBackoff.__init__ / RandomExponentialBackoff (inherited)
NewBackoff(cls, initial, maximum, base) ==
    [kind |-> cls, initial |-> initial, current |-> initial, base |-> base, maximum |-> maximum]

DefaultBase == Rat(3, 2)

\* growth that forgets the ceiling
BackoffAdvance_uncapped(b) == [b EXCEPT !.current = RatMul(b.current, b.base)]

\* ExponentialBackoff.__call__, first statement: the grown state
BackoffAdvance(b) == [b EXCEPT !.current = RatMin(RatMul(b.current, b.base), b.maximum)]

\* the subclass override lost: every class reports its growth state
get_current_plain(b, r) == b.current

\* get_current of the object's class, r being the value of random.random()
get_current(b, r) ==
    IF b.kind = "RandomExponentialBackoff" THEN RatAdd(RatMul(r, b.current), b.initial)
    ELSE b.current

\* ExponentialBackoff.__call__, value returned on the grown state b
BackoffValue(b, r) == RatMin(get_current(b, r), b.maximum)

\* Python truthiness of the `sleep` argument
Truthy(s) == s.kind # "number" \/ s.initial # Zero
Callable(s) == s.kind # "number"

\* ------------------------------------------------------- stop condition
ExpiringCounter(times) == [times |-> times]

\* the `expired` property decrements, then reports
ExpiredCounter(stopper) == [stopper EXCEPT !.times = stopper.times - 1]
\* a counter that reports expiry one attempt early
ExpiredValue_early(stopper) == ExpiredCounter(stopper).times <= 0
ExpiredValue(stopper) == ExpiredCounter(stopper).times < 0
\* a `remain` that counts the attempt about to be made as spent
remain_spent(stopper) == stopper.times - 1
remain(stopper) == stopper.times

\* ------------------------------------------------- exception classifying
\* the `unacceptable` argument: "None", a tuple of classes or one class
UnacceptableArgs ==
    { [form |-> "None", classes |-> {}],
      [form |-> "tuple", classes |-> {}],
      [form |-> "tuple", classes |-> {"UnicodeError", "OSError"}],
      [form |-> "class", classes |-> {"ValueError"}] }

\* a normalisation that drops the caller's classes
NormalizeUnacceptable_builtin(arg) ==
    IF arg.form = "None" THEN {} ELSE UNACCEPTABLE_EXCEPTIONS

NormalizeUnacceptable(arg) ==
    IF arg.form = "None" THEN {}
    ELSE IF arg.form = "tuple" THEN arg.classes \cup UNACCEPTABLE_EXCEPTIONS
    ELSE arg.classes \cup UNACCEPTABLE_EXCEPTIONS

AcceptableArgs == { {"Exception"}, {"ValueError"}, {"BaseException"} }

\* the caller's predicate: none, or a function of the exception
PredArgs == {"None", "RejectAll", "RejectUnicode"}

PredResult(p, exc) ==
    CASE p = "RejectAll" -> FALSE
      [] p = "RejectUnicode" -> exc.type # "UnicodeError"
      [] OTHER -> TRUE

\* what is remembered of an exception handed to the caller's predicate
PredArg(exc) == [id |-> exc.id, async |-> exc.async]

\* a check that never sees the tag
IsAsync_ignored(exc) == FALSE

\* getattr(exc, "_raised_asynchronously", False)
IsAsync(exc) == exc.async

\* exceptions the operation can raise
Raisable == ExcClasses \ {"BaseException"}
NoExc == [type |-> "None", async |-> FALSE, id |-> 0]
NewExc(c, a, k) == [type |-> c, async |-> a, id |-> k]

\* how a call ends
NoOutcome == [kind |-> "none", value |-> 0, exc |-> NoExc]
\* a return that loses the value
Returned_lost(v) == [kind |-> "returned", value |-> 0, exc |-> NoExc]
Returned(v) == [kind |-> "returned", value |-> v, exc |-> NoExc]
\* raising a substitute error in place of the handled exception
Reraise_substitute(exc) ==
    [kind |-> "raised", value |-> 0, exc |-> [type |-> "Exception", async |-> FALSE, id |-> 0]]
\* a bare `raise` (or `raise exc`) of the exception being handled
Reraise(exc) == [kind |-> "raised", value |-> 0, exc |-> exc]

\* the value the k-th invocation of the operation returns when it succeeds
Result(k) == k
\* the `default` of resilient
default == 0

LogRecord(level, msg, exc, rem, dur) ==
    [level |-> level, msg |-> msg, exc |-> exc.id, remain |-> rem, sleep_for |-> dur]

VARIABLES
    pc,             \* position in retry / resilient
    api,            \* which entry point was called: "none", "retry", "resilient"
    times,          \* the `times` argument of retry
    unacceptable_arg, \* the caller's `unacceptable` as passed
    unacceptable,   \* the normalised `unacceptable`
    acceptable,
    pred,
    log_level,
    stopper,        \* the ExpiringCounter
    sleep,          \* the `sleep` number or backoff object
    calls,          \* number of invocations of the operation so far
    exc,            \* the exception being handled
    sleep_for,
    sleeps,         \* arguments of the time.sleep calls, in order
    log,            \* records passed to _logger, in order
    trace,          \* names of the steps taken, in order
    pred_seen,      \* exceptions the caller's predicate was evaluated on
    outcome,        \* how the call ended
    \* a backoff object called on its own
    bo,             \* the ExponentialBackoff / RandomExponentialBackoff object
    returned,       \* the values its calls returned, in order
    draws,          \* the value of random.random() in each call, in order
    \* a function decorated with retrying
    deco,           \* the arguments bound by retrying(...)
    impl_calls,     \* calls of the decorated function so far
    consumed,       \* invocations of the function made by its earlier calls
    \* console arbitration (ThreadControl)
    SELECTED,       \* the ordered registry of solo tickets: <<[idx, thread], ...>>
    IDX_GEN,        \* the next value of the ticket counter
    LOCK,           \* the thread holding ThreadControl.LOCK, or NoThread
    CONTEXT,        \* per thread, the `silenced` deltas of its open scopes
    tpc,            \* per thread, its position
    scopes,         \* per thread, its open solo / suppressed scopes, outermost first
    idx,            \* per thread, the local `idx` of solo
    f_idx,          \* per thread, the local `idx` of filter
    f_selected,     \* per thread, the local `selected` of filter
    f_dirty,        \* per thread, the registry changed under its reverse iterator
    f_changed,      \* per thread, the registry changed during its filter call
    verdict         \* per thread, how its latest filter call ended

VARIABLES
    \* a function decorated with exception_to_boolean
    desc,           \* the _ExceptionToBooleanDescriptor made by the decorator
    fbody,          \* what the decorated function's body does: the exception it raises
    via,            \* how the wrapper was reached: "none", "module", "instance", "class"
    wrapper,        \* the descriptor the caller holds
    bpc,            \* "idle", "decorated", "held", "called", "func_called"
    explicit,       \* receivers the latest call passed as a positional argument
    b_exc,          \* the exception the function raised in the latest call
    b_out           \* how the latest call ended

VARIABLES
    \* the logging context store and record creation
    THREAD_LOGGING_CONTEXT, \* per thread, the updates of its open scopes
    lpc,            \* per thread: "run", "raising", "unwinding", "seen", "made"
    opened,         \* per thread, for each scope it has open: its update and
                    \* what the thread read just before entering it
    restored,       \* per thread, what it read before entering the scope it left last
    seen,           \* per thread, what its latest read of the store returned
    rv,             \* per thread, the record its latest makeRecord returned
    extra_arg       \* per thread, the `extra` of its latest makeRecord

VARIABLES
    \* structured exceptions
    pex,            \* the structured exception at hand
    shown,          \* the latest text got from it, and by which operation
    adds,           \* add_params calls made on it
    oe              \* the on_exception scope: its arguments, what the body
                    \* raised, what left the scope

VARIABLES
    \* indented scopes
    frames,         \* per thread, its open indented scopes: the depth read
                    \* before the header, the footer flag, the header record
    closed,         \* per thread, the indented scope it left last
    ierr            \* per thread, the exception propagating in it ("None" if none)

VARIABLES
    \* the settings of the logging module
    G,              \* the namespace class G and what initialize patched
    warned          \* warnings logged by initialize

VARIABLES
    \* the progress bar
    PROGRESS_BAR,   \* the ProgressBar object: _depth, _thread, _stop
    progressing,    \* the logger class's _progressing flag
    pscopes,        \* per thread, its open progress_bar scopes, by what
                    \* entering them did
    ppc             \* per thread: "run", or "entering" having seen the flag clear

VARIABLES
    \* the heartbeat handler
    hb,             \* the HeartbeatHandler: min_interval, last_beat, _emitting
    emits,          \* the emit calls that are inside beat_func, outermost first
    beats,          \* the record times of the latest two completed beats
    last_emit       \* the latest emit call: its record time, what it found
                    \* and whether it called beat_func

retryVars == <<pc, api, times, unacceptable_arg, unacceptable, acceptable, pred, log_level,
               stopper, sleep, calls, exc, sleep_for, sleeps, log, trace, pred_seen, outcome>>

backoffVars == <<bo, returned, draws>>

\* what retry and resilient leave alone
decoVars == <<deco, impl_calls, consumed>>

consoleVars == <<SELECTED, IDX_GEN, LOCK, CONTEXT, tpc, scopes, idx, f_idx, f_selected,
                 f_dirty, f_changed, verdict>>

boolVars == <<desc, fbody, via, wrapper, bpc, explicit, b_exc, b_out>>

\* the parts added after console arbitration
logVars == <<THREAD_LOGGING_CONTEXT, lpc, opened, restored, seen, rv, extra_arg>>

\* structured exceptions
excVars == <<pex, shown, adds, oe>>

\* the parts added after record creation
\* indented scopes
indVars == <<frames, closed, ierr>>

\* module settings
initVars == <<G, warned>>

\* the progress bar
pbVars == <<PROGRESS_BAR, progressing, pscopes, ppc>>

\* the heartbeat handler
hbVars == <<hb, emits, beats, last_emit>>

moreVars == <<excVars, indVars, initVars, pbVars, hbVars>>

laterVars == <<boolVars, logVars, moreVars>>

otherVars == <<backoffVars, decoVars, consoleVars, laterVars>>

vars == <<retryVars, otherVars>>

cfgVars == <<api, times, unacceptable_arg, unacceptable, acceptable, pred, log_level>>

\* no backoff object under test
BackoffIdle ==
    /\ bo = Number(Zero)
    /\ returned = <<>>
    /\ draws = <<>>

\* ------------------------------------------------- console arbitration
Threads == {"A", "B"}
NoThread == "nobody"
NoIdx == -1

Top(q) == q[Len(q)]
Rest(q) == SubSeq(q, 1, Len(q) - 1)

\* the keys of the registry
Keys(reg) == {reg[i].idx : i \in 1..Len(reg)}

\* SELECTED[idx] = thread, for an idx that is not a key yet
Insert(reg, i, t) == Append(reg, [idx |-> i, thread |-> t])

\* removing whichever ticket is newest, as if exits were last-in first-out
Pop_newest(reg, i) == SubSeq(reg, 1, Len(reg) - 1)

\* SELECTED.pop(idx)
Pop(reg, i) == SelectSeq(reg, LAMBDA e : e.idx # i)

\* next(reversed(SELECTED), None) on a registry that did not change meanwhile
Newest(reg) == IF reg = <<>> THEN NoIdx ELSE reg[Len(reg)].idx

\* SELECTED.get(idx, False)
Get(reg, i) ==
    IF i \in Keys(reg) THEN (CHOOSE e \in {reg[k] : k \in 1..Len(reg)} : e.idx = i).thread
    ELSE "False"

\* ThreadContexts: entering a scope pushes the delta on the thread's own stack
ContextEnter(ctx, t, delta) == [ctx EXCEPT ![t] = Append(@, delta)]

\* ThreadContexts: leaving a scope pops the thread's latest delta
ContextExit(ctx, t) == [ctx EXCEPT ![t] = SubSeq(@, 1, Len(@) - 1)]

RECURSIVE SumSeq(_)
SumSeq(q) == IF q = <<>> THEN 0 ELSE q[Len(q)] + SumSeq(SubSeq(q, 1, Len(q) - 1))

\* ThreadContexts: a counter reads as the sum of the thread's active deltas
ContextRead(ctx, t) == SumSeq(ctx[t])

\* no thread has used the console arbitration
ConsoleIdle ==
    /\ SELECTED = <<>>
    /\ IDX_GEN = 0
    /\ LOCK = NoThread
    /\ CONTEXT = [t \in Threads |-> <<>>]
    /\ tpc = [t \in Threads |-> "run"]
    /\ scopes = [t \in Threads |-> <<>>]
    /\ idx = [t \in Threads |-> NoIdx]
    /\ f_idx = [t \in Threads |-> NoIdx]
    /\ f_selected = [t \in Threads |-> "False"]
    /\ f_dirty = [t \in Threads |-> FALSE]
    /\ f_changed = [t \in Threads |-> FALSE]
    /\ verdict = [t \in Threads |-> "none"]

\* ------------------------------------------------- exception_to_boolean
\* a function object: the receiver parameters of its def (self / cls) and
\* the receiver it is bound to
Function(k, n) == [kind |-> k, params |-> n, self |-> "none"]

\* the callables the decorator is applied to: a module-level function, a
\* function in a class body (an instance method), a classmethod object and
\* a staticmethod object
Decorated ==
    { [place |-> "module", func |-> Function("function", 0)],
      [place |-> "class", func |-> Function("function", 1)],
      [place |-> "class", func |-> Function("classmethod", 1)],
      [place |-> "class", func |-> Function("staticmethod", 0)] }

\* func.__get__(instance, owner) of functions, classmethods, staticmethods
\* and bound methods
FuncGet(f, instance, owner) ==
    CASE f.kind = "function" ->
             IF instance = "None" THEN f ELSE [f EXCEPT !.kind = "method", !.self = instance]
      [] f.kind = "classmethod" -> [f EXCEPT !.kind = "method", !.self = owner]
      [] f.kind = "staticmethod" -> [f EXCEPT !.kind = "function"]
      [] OTHER -> f

\* _ExceptionToBooleanDescriptor.__init__
Descriptor(f, acc, una) == [func |-> f, acceptable |-> acc, unacceptable |-> una]

\* a __get__ that forgets the instance
DescriptorGet_unbound(d, instance, owner) ==
    Descriptor(FuncGet(d.func, "None", owner), d.acceptable, d.unacceptable)

\* _ExceptionToBooleanDescriptor.__get__
DescriptorGet(d, instance, owner) ==
    Descriptor(FuncGet(d.func, instance, owner), d.acceptable, d.unacceptable)

\* the exception raised by calling f with n receivers passed explicitly: a
\* TypeError when the receivers do not fit the def (or f is not callable),
\* otherwise whatever the body raises
ArityError == NewExc("TypeError", FALSE, 2)
CallRaises(f, n, body) ==
    IF f.kind \in {"classmethod", "staticmethod"} THEN ArityError
    ELSE IF (IF f.self = "none" THEN 0 ELSE 1) + n # f.params THEN ArityError
    ELSE body

\* the outcome of calling f itself
FuncValue == "result"
CallOutcome(f, n, body) ==
    IF CallRaises(f, n, body) = NoExc
    THEN [kind |-> "returned", value |-> FuncValue, exc |-> NoExc]
    ELSE [kind |-> "raised", value |-> "", exc |-> CallRaises(f, n, body)]

\* a wrapper whose `acceptable` clause comes first
ExceptionToBoolean_acceptable_first(d, e) ==
    IF e = NoExc THEN [kind |-> "returned", value |-> "True", exc |-> NoExc]
    ELSE IF ExceptMatches(e, d.acceptable)
    THEN [kind |-> "returned", value |-> "False", exc |-> NoExc]
    ELSE [kind |-> "raised", value |-> "", exc |-> e]

\* _ExceptionToBooleanDescriptor.__call__ when self.func raised e (or
\* nothing): the except clauses in their order
ExceptionToBoolean(d, e) ==
    IF e = NoExc THEN [kind |-> "returned", value |-> "True", exc |-> NoExc]
    ELSE IF ExceptMatches(e, d.unacceptable) THEN [kind |-> "raised", value |-> "", exc |-> e]
    ELSE IF ExceptMatches(e, UNACCEPTABLE_EXCEPTIONS)
    THEN [kind |-> "raised", value |-> "", exc |-> e]
    ELSE IF ExceptMatches(e, d.acceptable)
    THEN [kind |-> "returned", value |-> "False", exc |-> NoExc]
    ELSE [kind |-> "raised", value |-> "", exc |-> e]

NoDescriptor == Descriptor(Function("function", 0), {}, {})
NoCall == [kind |-> "none", value |-> "", exc |-> NoExc]

\* nothing has been decorated with exception_to_boolean
BooleanIdle ==
    /\ desc = NoDescriptor
    /\ fbody = NoExc
    /\ via = "none"
    /\ wrapper = NoDescriptor
    /\ bpc = "idle"
    /\ explicit = 0
    /\ b_exc = NoExc
    /\ b_out = NoCall

\* --------------------------------------------- the logging context store
\* THREAD_LOGGING_CONTEXT = ThreadContexts(counters="indentation",
\* stacks="context"): per thread, the updates of its open scopes, outermost
\* first.  An update gives the counter a delta and the stack a value; "None"
\* stands for a stack value the update does not give.
Update(delta, tag) == [indentation |-> delta, context |-> tag]

\* the context tags pushed by the code under test
Tags == {"a", "b"}

RECURSIVE CounterSum(_)
CounterSum(q) == IF q = <<>> THEN 0 ELSE CounterSum(Rest(q)) + Top(q).indentation

RECURSIVE StackValues(_)
StackValues(q) ==
    IF q = <<>> THEN <<>>
    ELSE IF Top(q).context = "None" THEN StackValues(Rest(q))
    ELSE Append(StackValues(Rest(q)), Top(q).context)

\* ThreadContexts: a counter reads as the sum of the thread's active deltas
CounterRead(ctx, t) == CounterSum(ctx[t])

\* ThreadContexts: a stack reads as the thread's active values, outermost first
StackRead(ctx, t) == StackValues(ctx[t])

\* what a thread reads from the store
Reading(ctx, t) == [indentation |-> CounterRead(ctx, t), context |-> StackRead(ctx, t)]
NoReading == [indentation |-> -1, context |-> <<>>]

\* ------------------------------------------------------ patched_makeRecord
\* G.INDENT_COLORS, as shuffled once by initialize
Palette == <<"DARK_GREEN", "DARK_BLUE">>

\* the fields Logger._makeRecord sets on a record (some of them)
NoFields == [k \in {} |-> ""]
BaseRecord == ("name" :> "root") @@ ("msg" :> "text") @@ ("levelname" :> "INFO")

\* the `extra` argument: None or a dict
ExtraDicts ==
    { NoFields,
      "drawing" :> "INDENT_OPEN",
      "drawing" :> "INDENT_EXCEPTION",
      "host" :> "h1",
      "message" :> "m",
      "asctime" :> "now",
      "name" :> "other",
      "indentation" :> 0,
      "context" :> <<"x">>,
      ("drawing" :> "INDENT_CLOSE") @@ ("host" :> "h1"),
      ("drawing" :> "INDENT_CLOSE") @@ ("msg" :> "other"),
      ("host" :> "h1") @@ ("asctime" :> "now") }

ExtraArgs == {[none |-> TRUE, attrs |-> NoFields]}
                 \cup {[none |-> FALSE, attrs |-> d] : d \in ExtraDicts}
NoExtra == [none |-> TRUE, attrs |-> NoFields]

\* a dict without one key
Without(d, key) == [k \in DOMAIN d \ {key} |-> d[k]]

\* line 598: drawing = extra.pop('drawing', drawing)
PopDrawing(extra) ==
    IF ~extra.none /\ "drawing" \in DOMAIN extra.attrs THEN extra.attrs["drawing"]
    ELSE "INDENT_SEGMENT"

\* the keys the loop of line 599 goes through
LoopKeys(extra) == IF extra.none THEN {} ELSE DOMAIN extra.attrs \ {"drawing"}

\* a test that only knows the two reserved names
Collides_reserved(key, fields) == key \in {"message", "asctime"}

\* line 600
Collides(key, fields) == key \in {"message", "asctime"} \/ key \in DOMAIN fields

\* "[%s]" % ";".join(contexts) if contexts else ""
RECURSIVE Join(_)
Join(tags) ==
    IF Len(tags) <= 1 THEN tags
    ELSE Join(Rest(tags)) \o <<";", Top(tags)>>

ContextString(tags) == IF tags = <<>> THEN <<>> ELSE <<"[">> \o Join(tags) \o <<"]">>

\* a decoration that leaves out the last glyph
Drawing_bare(depth, drawing) ==
    [i \in 1..(IF depth > 0 THEN depth ELSE 0) |->
        [glyph |-> "INDENT_SEGMENT", color |-> Palette[((i - 1) % Len(Palette)) + 1]]]

\* lines 609-610: the segments, each coloured by the cycled palette
Drawing(depth, drawing) ==
    [i \in 1..((IF depth > 0 THEN depth ELSE 0) + 1) |->
        [glyph |-> IF i <= depth THEN "INDENT_SEGMENT" ELSE drawing,
         color |-> Palette[((i - 1) % Len(Palette)) + 1]]]

\* lines 604-607: the flattened context, the record's own fields first
Flattened(ctx, t) ==
    ("indentation" :> CounterRead(ctx, t)) @@ ("context" :> ContextString(StackRead(ctx, t)))

\* lines 593-611 when no key collides
\* an augmentation in which the thread context overrides the record
Augmented_context_first(ctx, t, extra) ==
    LET copied == Without(IF extra.none THEN NoFields ELSE extra.attrs, "drawing") @@ BaseRecord
        merged == Flattened(ctx, t) @@ copied
    IN  ("drawing" :> Drawing(merged["indentation"], PopDrawing(extra))) @@ merged

Augmented(ctx, t, extra) ==
    LET copied == Without(IF extra.none THEN NoFields ELSE extra.attrs, "drawing") @@ BaseRecord
        merged == copied @@ Flattened(ctx, t)
    IN  ("drawing" :> Drawing(merged["indentation"], PopDrawing(extra))) @@ merged

NoRecord == [made |-> FALSE, fields |-> NoFields]

\* no thread has used the logging context
LoggingIdle ==
    /\ THREAD_LOGGING_CONTEXT = [t \in Threads |-> <<>>]
    /\ lpc = [t \in Threads |-> "run"]
    /\ opened = [t \in Threads |-> <<>>]
    /\ restored = [t \in Threads |-> NoReading]
    /\ seen = [t \in Threads |-> NoReading]
    /\ rv = [t \in Threads |-> NoRecord]
    /\ extra_arg = [t \in Threads |-> NoExtra]

\* -------------------------------------------------- structured exceptions
\* Python values held by params and contexts: ints, strs and None.  A str is
\* a sequence of pieces, a piece being literal text or a replacement field
\* `{key}` of str.format.
Lit(x) == [lit |-> x, field |-> ""]
Field(k) == [lit |-> "", field |-> k]

IntV(n) == [type |-> "int", n |-> n, text |-> <<>>]
StrV(t) == [type |-> "str", n |-> 0, text |-> t]
NoneV == [type |-> "NoneType", n |-> 0, text |-> <<>>]

\* a dict: its keys in insertion order and the value at each key
EmptyDict == [keys |-> <<>>, at |-> <<>>]

\* an exception object; plain exceptions have no params, context or trace.
\* `id` tells objects apart: 1 is raised by the code under on_exception, 2 is
\* made by on_exception itself.
NoPEx ==
    [cls |-> "None", id |-> 0, message |-> <<>>, params |-> EmptyDict,
     context |-> EmptyDict, traceback |-> "None", timestamp |-> 0]

NoText == [op |-> "none", lines |-> <<>>]

NoScope == [state |-> "none", cls |-> "None", acceptable |-> {}, kw |-> EmptyDict,
            raised |-> NoPEx, out |-> NoPEx]

\* no structured exception has been made
ExceptionIdle ==
    /\ pex = NoPEx
    /\ shown = NoText
    /\ adds = 0
    /\ oe = NoScope

\* a record as the indented scopes log it
NoLogged == [title |-> "", indentation |-> -1, drawing |-> <<>>]
NoClosed == [made |-> FALSE, d |-> -1, header |-> NoLogged, footers |-> <<>>,
             cause |-> "None", reraised |-> FALSE, after |-> -1]

\* no thread has entered an indented scope
IndentedIdle ==
    /\ frames = [t \in Threads |-> <<>>]
    /\ closed = [t \in Threads |-> NoClosed]
    /\ ierr = [t \in Threads |-> "None"]

\* class G as the module defines it, and the logger class before patching
Uninitialized ==
    [initialized |-> FALSE, IS_A_TTY |-> "None", GRAPHICAL |-> "None", graphics |-> "None",
     COLORING |-> "None", INDENT_COLORS |-> <<>>, bases |-> <<>>,
     makeRecord |-> "Logger.makeRecord", _makeRecord |-> "None"]

\* initialize has not been called
SettingsIdle ==
    /\ G = Uninitialized
    /\ warned = 0

\* ProgressBar.__init__: no animation thread, depth 0
NoProgressBar == [depth |-> 0, thread |-> "None", stop |-> FALSE]

\* no thread has asked for the progress bar
ProgressIdle ==
    /\ PROGRESS_BAR = NoProgressBar
    /\ progressing = FALSE
    /\ pscopes = [t \in Threads |-> <<>>]
    /\ ppc = [t \in Threads |-> "run"]

NoHandler == [made |-> FALSE, min_interval |-> 0, last_beat |-> 0, emitting |-> FALSE]
NoEmit == [created |-> -1, last_beat |-> 0, busy |-> FALSE, beat |-> FALSE]

\* no heartbeat handler has been made
HeartbeatIdle ==
    /\ hb = NoHandler
    /\ emits = <<>>
    /\ beats = <<>>
    /\ last_emit = NoEmit

MoreIdle == ExceptionIdle /\ IndentedIdle /\ SettingsIdle /\ ProgressIdle /\ HeartbeatIdle

LaterIdle == BooleanIdle /\ LoggingIdle /\ MoreIdle

\* no function has been decorated
NoDeco ==
    [times |-> 0, acceptable |-> {}, sleep |-> Number(Zero), max_sleep |-> 0,
     log_level |-> DEBUG, pred |-> "None"]

DecoIdle ==
    /\ deco = NoDeco
    /\ impl_calls = 0
    /\ consumed = 0

\* neither retry nor resilient has been called
RetryIdle ==
    /\ pc = "idle"
    /\ api = "none"
    /\ times = 0
    /\ unacceptable_arg = [form |-> "tuple", classes |-> {}]
    /\ unacceptable = {}
    /\ acceptable = {"Exception"}
    /\ pred = "None"
    /\ log_level = DEBUG
    /\ stopper = ExpiringCounter(0)
    /\ sleep = Number(Zero)
    /\ calls = 0
    /\ exc = NoExc
    /\ sleep_for = Zero
    /\ sleeps = <<>>
    /\ log = <<>>
    /\ trace = <<>>
    /\ pred_seen = {}
    /\ outcome = NoOutcome

Init ==
    /\ RetryIdle
    /\ BackoffIdle
    /\ DecoIdle
    /\ ConsoleIdle
    /\ LaterIdle

\* ------------------------------------------------------------------ retry
SleepArgs == { Number(Rat(n, 1)) : n \in 0..1 }
                \cup { NewBackoff("ExponentialBackoff", Rat(1, 1), Rat(3, 1), Rat(2, 1)) }
MaxSleepArgs == {0, MaxSleep}

\* retry(times, func, ...): lines 61-83, up to the loop
RetryCall ==
    /\ pc = "idle"
    /\ \E n \in 0..MaxTimes, acc \in AcceptableArgs, una \in UnacceptableArgs,
          p \in PredArgs, s \in SleepArgs, max_sleep \in MaxSleepArgs, lvl \in {DEBUG, INFO} :
        /\ s.kind = "number" \/ max_sleep = 0
        /\ api' = "retry"
        /\ times' = n
        /\ unacceptable_arg' = una
        /\ unacceptable' = NormalizeUnacceptable(una)
        /\ acceptable' = acc
        /\ pred' = p
        /\ log_level' = lvl
        /\ stopper' = ExpiringCounter(n)
        /\ sleep' = IF max_sleep # 0
                    THEN NewBackoff("RandomExponentialBackoff", s.initial, Rat(max_sleep, 1), DefaultBase)
                    ELSE s
    /\ pc' = "attempt"
    /\ UNCHANGED <<calls, exc, sleep_for, sleeps, log, trace, pred_seen, outcome>>
    /\ UNCHANGED otherVars

\* line 87: return func(*args, **kwargs)
Attempt ==
    /\ pc = "attempt"
    /\ calls' = calls + 1
    /\ trace' = Append(trace, "call")
    /\ \/ /\ outcome' = Returned(Result(calls'))
          /\ pc' = "done"
          /\ exc' = exc
       \/ \E c \in Raisable, a \in BOOLEAN :
          /\ exc' = NewExc(c, a, calls')
          /\ pc' = "except"
          /\ outcome' = outcome
    /\ UNCHANGED <<cfgVars, stopper, sleep, sleep_for, sleeps, log, pred_seen>>
    /\ UNCHANGED otherVars

\* lines 88-89: except unacceptable: raise
ExceptUnacceptable ==
    /\ pc = "except"
    /\ ExceptMatches(exc, unacceptable)
    /\ outcome' = Reraise(exc)
    /\ pc' = "done"
    /\ UNCHANGED <<cfgVars, stopper, sleep, calls, exc, sleep_for, sleeps, log, trace, pred_seen>>
    /\ UNCHANGED otherVars

\* line 90: except acceptable
ExceptAcceptable ==
    /\ pc = "except"
    /\ ~ExceptMatches(exc, unacceptable)
    /\ ExceptMatches(exc, acceptable)
    /\ pc' = "async"
    /\ UNCHANGED <<cfgVars, stopper, sleep, calls, exc, sleep_for, sleeps, log, trace, pred_seen, outcome>>
    /\ UNCHANGED otherVars

\* no except clause matches: the exception leaves the try statement
ExceptNone ==
    /\ pc = "except"
    /\ ~ExceptMatches(exc, unacceptable)
    /\ ~ExceptMatches(exc, acceptable)
    /\ outcome' = Reraise(exc)
    /\ pc' = "done"
    /\ UNCHANGED <<cfgVars, stopper, sleep, calls, exc, sleep_for, sleeps, log, trace, pred_seen>>
    /\ UNCHANGED otherVars

\* line 91 and lines 172-177: raise_if_async_exception(exc)
AsyncCheck ==
    /\ pc = "async"
    /\ IF IsAsync(exc)
       THEN /\ log' = Append(log, LogRecord(INFO, "Raising asynchronous error", NoExc, 0, Zero))
            /\ trace' = Append(trace, "raise_async")
            /\ outcome' = Reraise(exc)
            /\ pc' = "done"
       ELSE /\ trace' = Append(trace, "not_async")
            /\ pc' = "pred"
            /\ UNCHANGED <<log, outcome>>
    /\ UNCHANGED <<cfgVars, stopper, sleep, calls, exc, sleep_for, sleeps, pred_seen>>
    /\ UNCHANGED otherVars

\* the predicate consulted after the stop condition was charged
PredCheck_charged ==
    /\ pc = "pred"
    /\ pred_seen' = IF pred = "None" THEN pred_seen ELSE pred_seen \cup {PredArg(exc)}
    /\ trace' = Append(trace, "pred")
    /\ stopper' = ExpiredCounter(stopper)
    /\ IF ~PredResult(pred, exc)
       THEN /\ outcome' = Reraise(exc)
            /\ pc' = "done"
       ELSE /\ pc' = "expired"
            /\ outcome' = outcome
    /\ UNCHANGED <<cfgVars, sleep, calls, exc, sleep_for, sleeps, log>>
    /\ UNCHANGED otherVars

\* lines 82-83 and 92-93: if not pred(exc): raise
PredCheck ==
    /\ pc = "pred"
    /\ pred_seen' = IF pred = "None" THEN pred_seen ELSE pred_seen \cup {PredArg(exc)}
    /\ trace' = Append(trace, "pred")
    /\ IF ~PredResult(pred, exc)
       THEN /\ outcome' = Reraise(exc)
            /\ pc' = "done"
       ELSE /\ pc' = "expired"
            /\ outcome' = outcome
    /\ UNCHANGED <<cfgVars, stopper, sleep, calls, exc, sleep_for, sleeps, log>>
    /\ UNCHANGED otherVars

\* lines 94-95: if stopper.expired: raise
StopCheck ==
    /\ pc = "expired"
    /\ stopper' = ExpiredCounter(stopper)
    /\ trace' = Append(trace, "expired")
    /\ IF ExpiredValue(stopper)
       THEN /\ outcome' = Reraise(exc)
            /\ pc' = "done"
       ELSE /\ pc' = "log_exc"
            /\ outcome' = outcome
    /\ UNCHANGED <<cfgVars, sleep, calls, exc, sleep_for, sleeps, log, pred_seen>>
    /\ UNCHANGED otherVars

\* line 96
LogException ==
    /\ pc = "log_exc"
    /\ log' = Append(log, LogRecord(log_level, "Exception thrown", exc, 0, Zero))
    /\ trace' = Append(trace, "log_exc")
    /\ pc' = "delay"
    /\ UNCHANGED <<cfgVars, stopper, sleep, calls, exc, sleep_for, sleeps, pred_seen, outcome>>
    /\ UNCHANGED otherVars

\* lines 97-100
ComputeDelay ==
    /\ pc = "delay"
    /\ IF ~Truthy(sleep)
       THEN /\ sleep_for' = Zero
            /\ sleep' = sleep
       ELSE IF Callable(sleep)
       THEN /\ sleep' = BackoffAdvance(sleep)
            /\ \E r \in RandomValues :
                /\ sleep.kind = "RandomExponentialBackoff" \/ r = Zero
                /\ sleep_for' = BackoffValue(sleep', r)
       ELSE /\ sleep_for' = sleep.initial
            /\ sleep' = sleep
    /\ trace' = Append(trace, "delay")
    /\ pc' = "log_retry"
    /\ UNCHANGED <<cfgVars, stopper, calls, exc, sleeps, log, pred_seen, outcome>>
    /\ UNCHANGED otherVars

\* line 101
LogRetrying ==
    /\ pc = "log_retry"
    /\ log' = Append(log, LogRecord(log_level, "Retrying...", NoExc, remain(stopper), sleep_for))
    /\ trace' = Append(trace, "log_retry")
    /\ pc' = "sleep"
    /\ UNCHANGED <<cfgVars, stopper, sleep, calls, exc, sleep_for, sleeps, pred_seen, outcome>>
    /\ UNCHANGED otherVars

\* a zero delay skipping the call of time.sleep
Sleep_skip_zero ==
    /\ pc = "sleep"
    /\ sleeps' = IF sleep_for = Zero THEN sleeps ELSE Append(sleeps, sleep_for)
    /\ trace' = IF sleep_for = Zero THEN trace ELSE Append(trace, "sleep")
    /\ pc' = "attempt"
    /\ UNCHANGED <<cfgVars, stopper, sleep, calls, exc, sleep_for, log, pred_seen, outcome>>
    /\ UNCHANGED otherVars

\* line 102, then back to the top of the loop
Sleep ==
    /\ pc = "sleep"
    /\ sleeps' = Append(sleeps, sleep_for)
    /\ trace' = Append(trace, "sleep")
    /\ pc' = "attempt"
    /\ UNCHANGED <<cfgVars, stopper, sleep, calls, exc, sleep_for, log, pred_seen, outcome>>
    /\ UNCHANGED otherVars

\* -------------------------------------------------------------- resilient
\* resilient(func, default, **kw) called: lines 129-135 and 141-148
ResilientCall ==
    /\ pc = "idle"
    /\ \E acc \in AcceptableArgs, una \in UnacceptableArgs, p \in PredArgs, lvl \in {DEBUG, INFO} :
        /\ api' = "resilient"
        /\ times' = times
        /\ unacceptable_arg' = una
        /\ unacceptable' = NormalizeUnacceptable(una)
        /\ acceptable' = acc
        /\ pred' = p
        /\ log_level' = lvl
    /\ pc' = "r_body"
    /\ UNCHANGED <<stopper, sleep, calls, exc, sleep_for, sleeps, log, trace, pred_seen, outcome>>
    /\ UNCHANGED otherVars

\* line 135 (the body of the with block, at the yield of line 149)
ResilientBody ==
    /\ pc = "r_body"
    /\ calls' = calls + 1
    /\ trace' = Append(trace, "call")
    /\ \/ /\ outcome' = Returned(Result(calls'))
          /\ pc' = "done"
          /\ exc' = exc
       \/ \E c \in Raisable, a \in BOOLEAN :
          /\ exc' = NewExc(c, a, calls')
          /\ pc' = "r_except"
          /\ outcome' = outcome
    /\ UNCHANGED <<cfgVars, stopper, sleep, sleep_for, sleeps, log, pred_seen>>
    /\ UNCHANGED otherVars

\* lines 150-151
ResilienceUnacceptable ==
    /\ pc = "r_except"
    /\ ExceptMatches(exc, unacceptable)
    /\ outcome' = Reraise(exc)
    /\ pc' = "done"
    /\ UNCHANGED <<cfgVars, stopper, sleep, calls, exc, sleep_for, sleeps, log, trace, pred_seen>>
    /\ UNCHANGED otherVars

\* line 152
ResilienceAcceptable ==
    /\ pc = "r_except"
    /\ ~ExceptMatches(exc, unacceptable)
    /\ ExceptMatches(exc, acceptable)
    /\ pc' = "r_pred"
    /\ UNCHANGED <<cfgVars, stopper, sleep, calls, exc, sleep_for, sleeps, log, trace, pred_seen, outcome>>
    /\ UNCHANGED otherVars

\* a resilience that swallows what no except clause matches
ResilienceNone_swallowing ==
    /\ pc = "r_except"
    /\ ~ExceptMatches(exc, unacceptable)
    /\ ~ExceptMatches(exc, acceptable)
    /\ outcome' = Returned(default)
    /\ pc' = "done"
    /\ UNCHANGED <<cfgVars, stopper, sleep, calls, exc, sleep_for, sleeps, log, trace, pred_seen>>
    /\ UNCHANGED otherVars

\* no except clause of resilience matches
ResilienceNone ==
    /\ pc = "r_except"
    /\ ~ExceptMatches(exc, unacceptable)
    /\ ~ExceptMatches(exc, acceptable)
    /\ outcome' = Reraise(exc)
    /\ pc' = "done"
    /\ UNCHANGED <<cfgVars, stopper, sleep, calls, exc, sleep_for, sleeps, log, trace, pred_seen>>
    /\ UNCHANGED otherVars

\* lines 153-154: if pred and not pred(exc): raise
ResiliencePred ==
    /\ pc = "r_pred"
    /\ IF pred # "None"
       THEN /\ pred_seen' = pred_seen \cup {PredArg(exc)}
            /\ trace' = Append(trace, "pred")
       ELSE UNCHANGED <<pred_seen, trace>>
    /\ IF pred # "None" /\ ~PredResult(pred, exc)
       THEN /\ outcome' = Reraise(exc)
            /\ pc' = "done"
       ELSE /\ pc' = "r_async"
            /\ outcome' = outcome
    /\ UNCHANGED <<cfgVars, stopper, sleep, calls, exc, sleep_for, sleeps, log>>
    /\ UNCHANGED otherVars

\* line 155 and lines 172-177
ResilienceAsync ==
    /\ pc = "r_async"
    /\ IF IsAsync(exc)
       THEN /\ log' = Append(log, LogRecord(INFO, "Raising asynchronous error", NoExc, 0, Zero))
            /\ trace' = Append(trace, "raise_async")
            /\ outcome' = Reraise(exc)
            /\ pc' = "done"
       ELSE /\ trace' = Append(trace, "not_async")
            /\ pc' = "r_log"
            /\ UNCHANGED <<log, outcome>>
    /\ UNCHANGED <<cfgVars, stopper, sleep, calls, exc, sleep_for, sleeps, pred_seen>>
    /\ UNCHANGED otherVars

\* a resilience that logs the traceback at every severity
ResilienceLog_traceback ==
    /\ pc = "r_log"
    /\ log' = log \o <<LogRecord(log_level, "ignoring error", exc, 0, Zero),
                        LogRecord(DEBUG, "Traceback:", exc, 0, Zero)>>
    /\ trace' = Append(trace, "swallow")
    /\ outcome' = Returned(default)
    /\ pc' = "done"
    /\ UNCHANGED <<cfgVars, stopper, sleep, calls, exc, sleep_for, sleeps, pred_seen>>
    /\ UNCHANGED otherVars

\* lines 156-158, then line 136: the exception is swallowed
ResilienceLog ==
    /\ pc = "r_log"
    /\ log' = IF log_level > DEBUG
              THEN log \o <<LogRecord(log_level, "ignoring error", exc, 0, Zero),
                            LogRecord(DEBUG, "Traceback:", exc, 0, Zero)>>
              ELSE Append(log, LogRecord(log_level, "ignoring error", exc, 0, Zero))
    /\ trace' = Append(trace, "swallow")
    /\ outcome' = Returned(default)
    /\ pc' = "done"
    /\ UNCHANGED <<cfgVars, stopper, sleep, calls, exc, sleep_for, sleeps, pred_seen>>
    /\ UNCHANGED otherVars

Next ==
    \/ RetryCall
    \/ Attempt
    \/ ExceptUnacceptable
    \/ ExceptAcceptable
    \/ ExceptNone
    \/ AsyncCheck
    \/ PredCheck
    \/ StopCheck
    \/ LogException
    \/ ComputeDelay
    \/ LogRetrying
    \/ Sleep
    \/ ResilientCall
    \/ ResilientBody
    \/ ResilienceUnacceptable
    \/ ResilienceAcceptable
    \/ ResilienceNone
    \/ ResiliencePred
    \/ ResilienceAsync
    \/ ResilienceLog

Spec == Init /\ [][Next]_vars

TypeOK ==
    /\ pc \in {"idle", "attempt", "except", "async", "pred", "expired", "log_exc",
               "delay", "log_retry", "sleep", "done",
               "r_body", "r_except", "r_pred", "r_async", "r_log"}
    /\ calls \in 0..(MaxTimes + 1)

\* ---------------------------------------------------- backoff on its own
\* constructor arguments tried: initial, maximum and base
BackoffInitials == {Rat(0, 1), Rat(1, 1), Rat(2, 1), Rat(8, 1)}
BackoffMaxima == {Rat(2, 1), Rat(30, 1)}
BackoffBases == {Rat(1, 2), Rat(1, 1), Rat(3, 2), Rat(2, 1)}
BackoffClasses == {"ExponentialBackoff", "RandomExponentialBackoff"}

\* cls(initial, maximum, base) has been constructed
BackoffInit ==
    /\ RetryIdle
    /\ \E cls \in BackoffClasses, i \in BackoffInitials, m \in BackoffMaxima, b \in BackoffBases :
          bo = NewBackoff(cls, i, m, b)
    /\ returned = <<>>
    /\ draws = <<>>
    /\ DecoIdle
    /\ ConsoleIdle
    /\ LaterIdle

\* ExponentialBackoff.__call__ on an ExponentialBackoff
ExponentialCall ==
    /\ bo.kind = "ExponentialBackoff"
    /\ Len(returned) < MaxBackoffCalls
    /\ bo' = BackoffAdvance(bo)
    /\ returned' = Append(returned, BackoffValue(bo', Zero))
    /\ draws' = Append(draws, Zero)
    /\ UNCHANGED <<retryVars, decoVars, consoleVars, laterVars>>

\* ExponentialBackoff.__call__ on a RandomExponentialBackoff
RandomCall ==
    /\ bo.kind = "RandomExponentialBackoff"
    /\ Len(returned) < MaxBackoffCalls
    /\ bo' = BackoffAdvance(bo)
    /\ \E r \in RandomValues :
        /\ returned' = Append(returned, BackoffValue(bo', r))
        /\ draws' = Append(draws, r)
    /\ UNCHANGED <<retryVars, decoVars, consoleVars, laterVars>>

BackoffNext ==
    \/ ExponentialCall
    \/ RandomCall

SpecBackoff == BackoffInit /\ [][BackoffNext]_vars

\* -------------------------------------------------------------- retrying
\* retrying(times, acceptable, sleep, max_sleep, log_level, pred)(func):
\* lines 105-115, the decorated function exists and was not called yet
RetryingInit ==
    /\ RetryIdle
    /\ BackoffIdle
    /\ \E n \in 0..MaxTimes, acc \in AcceptableArgs, p \in PredArgs, s \in SleepArgs,
          max_sleep \in MaxSleepArgs, lvl \in {DEBUG, INFO} :
        /\ s.kind = "number" \/ max_sleep = 0
        /\ deco = [times |-> n, acceptable |-> acc, sleep |-> s, max_sleep |-> max_sleep,
                   log_level |-> lvl, pred |-> p]
    /\ impl_calls = 0
    /\ consumed = 0
    /\ ConsoleIdle
    /\ LaterIdle

\* the stop condition made once, when the function is decorated
ImplStopper_shared == IF impl_calls = 0 THEN ExpiringCounter(deco.times) ELSE stopper

\* line 76, in a call of the decorated function
ImplStopper == ExpiringCounter(deco.times)

\* lines 80-81 in a call of the decorated function: the `sleep` retry works
\* with. A backoff object given to retrying is the same object in every call.
ImplSleep ==
    IF deco.max_sleep # 0
    THEN NewBackoff("RandomExponentialBackoff", deco.sleep.initial, Rat(deco.max_sleep, 1),
                    DefaultBase)
    ELSE IF Callable(deco.sleep) /\ impl_calls > 0 THEN sleep
    ELSE deco.sleep

\* impl(*args, **kwargs), lines 108-113, and retry's lines 61-83
ImplCall ==
    /\ pc \in {"idle", "done"}
    /\ impl_calls < MaxImplCalls
    /\ impl_calls' = impl_calls + 1
    /\ consumed' = consumed + calls
    /\ api' = "retry"
    /\ times' = deco.times
    /\ unacceptable_arg' = [form |-> "tuple", classes |-> {}]
    /\ unacceptable' = NormalizeUnacceptable(unacceptable_arg')
    /\ acceptable' = deco.acceptable
    /\ pred' = deco.pred
    /\ log_level' = deco.log_level
    /\ stopper' = ImplStopper
    /\ sleep' = ImplSleep
    /\ calls' = 0
    /\ exc' = NoExc
    /\ sleep_for' = Zero
    /\ sleeps' = <<>>
    /\ log' = <<>>
    /\ trace' = <<>>
    /\ pred_seen' = {}
    /\ outcome' = NoOutcome
    /\ pc' = "attempt"
    /\ UNCHANGED <<deco, backoffVars, consoleVars, laterVars>>

RetryingNext ==
    \/ ImplCall
    \/ Attempt
    \/ ExceptUnacceptable
    \/ ExceptAcceptable
    \/ ExceptNone
    \/ AsyncCheck
    \/ PredCheck
    \/ StopCheck
    \/ LogException
    \/ ComputeDelay
    \/ LogRetrying
    \/ Sleep

SpecRetrying == RetryingInit /\ [][RetryingNext]_vars

\* --------------------------------------------------- ThreadControl actions
nonConsoleVars == <<retryVars, backoffVars, decoVars, laterVars>>

FilterPcs == {"f_iter", "f_next", "f_get", "f_ret"}

SoloScope(i) == [kind |-> "solo", idx |-> i]
SuppressedScope == [kind |-> "suppressed", idx |-> NoIdx]

\* what a change of the registry does to the filter calls in progress: a
\* reverse iterator made before the change fails on its next use
RegistryChanged ==
    /\ f_dirty' = [u \in Threads |-> f_dirty[u] \/ tpc[u] = "f_next"]
    /\ f_changed' = [u \in Threads |-> f_changed[u] \/ tpc[u] \in FilterPcs]

\* entering the lock without waiting for it to be free
SoloAcquire_nolock(t) ==
    /\ tpc[t] = "run"
    /\ Len(scopes[t]) < MaxDepth
    /\ IDX_GEN < MaxTickets
    /\ LOCK' = t
    /\ tpc' = [tpc EXCEPT ![t] = "solo_idx"]
    /\ UNCHANGED <<SELECTED, IDX_GEN, CONTEXT, scopes, idx, f_idx, f_selected, f_dirty,
                   f_changed, verdict>>
    /\ UNCHANGED nonConsoleVars

\* solo, line 142: with cls.LOCK
SoloAcquire(t) ==
    /\ tpc[t] = "run"
    /\ Len(scopes[t]) < MaxDepth
    /\ IDX_GEN < MaxTickets
    /\ LOCK = NoThread
    /\ LOCK' = t
    /\ tpc' = [tpc EXCEPT ![t] = "solo_idx"]
    /\ UNCHANGED <<SELECTED, IDX_GEN, CONTEXT, scopes, idx, f_idx, f_selected, f_dirty,
                   f_changed, verdict>>
    /\ UNCHANGED nonConsoleVars

\* solo, line 143: idx = next(cls.IDX_GEN)
SoloNextIdx(t) ==
    /\ tpc[t] = "solo_idx"
    /\ idx' = [idx EXCEPT ![t] = IDX_GEN]
    /\ IDX_GEN' = IDX_GEN + 1
    /\ tpc' = [tpc EXCEPT ![t] = "solo_set"]
    /\ UNCHANGED <<SELECTED, LOCK, CONTEXT, scopes, f_idx, f_selected, f_dirty, f_changed,
                   verdict>>
    /\ UNCHANGED nonConsoleVars

\* solo, line 144: cls.SELECTED[idx] = threading.current_thread()
SoloInsert(t) ==
    /\ tpc[t] = "solo_set"
    /\ SELECTED' = Insert(SELECTED, idx[t], t)
    /\ RegistryChanged
    /\ tpc' = [tpc EXCEPT ![t] = "solo_unlock"]
    /\ UNCHANGED <<IDX_GEN, LOCK, CONTEXT, scopes, idx, f_idx, f_selected, verdict>>
    /\ UNCHANGED nonConsoleVars

\* solo, end of the with block of line 142, then the yield of line 145
SoloRelease(t) ==
    /\ tpc[t] = "solo_unlock"
    /\ LOCK' = NoThread
    /\ scopes' = [scopes EXCEPT ![t] = Append(@, SoloScope(idx[t]))]
    /\ idx' = [idx EXCEPT ![t] = NoIdx]
    /\ tpc' = [tpc EXCEPT ![t] = "run"]
    /\ UNCHANGED <<SELECTED, IDX_GEN, CONTEXT, f_idx, f_selected, f_dirty, f_changed, verdict>>
    /\ UNCHANGED nonConsoleVars

\* the removal written after the yield with no finally: skipped by an exception
SoloExit_nofinally(t) ==
    /\ tpc[t] \in {"run", "unwind"}
    /\ scopes[t] # <<>>
    /\ Top(scopes[t]).kind = "solo"
    /\ IF tpc[t] = "run"
       THEN SELECTED' = Pop(SELECTED, Top(scopes[t]).idx) /\ RegistryChanged
       ELSE UNCHANGED <<SELECTED, f_dirty, f_changed>>
    /\ scopes' = [scopes EXCEPT ![t] = Rest(@)]
    /\ UNCHANGED <<IDX_GEN, LOCK, CONTEXT, tpc, idx, f_idx, f_selected, verdict>>
    /\ UNCHANGED nonConsoleVars

\* solo, lines 146-147: finally: cls.SELECTED.pop(idx), whether the body
\* completed or raised
SoloExit(t) ==
    /\ tpc[t] \in {"run", "unwind"}
    /\ scopes[t] # <<>>
    /\ Top(scopes[t]).kind = "solo"
    /\ SELECTED' = Pop(SELECTED, Top(scopes[t]).idx)
    /\ RegistryChanged
    /\ scopes' = [scopes EXCEPT ![t] = Rest(@)]
    /\ UNCHANGED <<IDX_GEN, LOCK, CONTEXT, tpc, idx, f_idx, f_selected, verdict>>
    /\ UNCHANGED nonConsoleVars

\* a suppression counted on every thread
SuppressEnter_global(t) ==
    /\ tpc[t] = "run"
    /\ Len(scopes[t]) < MaxDepth
    /\ CONTEXT' = [u \in Threads |-> IF Len(CONTEXT[u]) < MaxDepth \/ u = t
                                     THEN Append(CONTEXT[u], 1) ELSE CONTEXT[u]]
    /\ scopes' = [scopes EXCEPT ![t] = Append(@, SuppressedScope)]
    /\ UNCHANGED <<SELECTED, IDX_GEN, LOCK, tpc, idx, f_idx, f_selected, f_dirty, f_changed,
                   verdict>>
    /\ UNCHANGED nonConsoleVars

\* suppressed, lines 338-342: entering ThreadControl.CONTEXT(silenced=True)
SuppressEnter(t) ==
    /\ tpc[t] = "run"
    /\ Len(scopes[t]) < MaxDepth
    /\ CONTEXT' = ContextEnter(CONTEXT, t, 1)
    /\ scopes' = [scopes EXCEPT ![t] = Append(@, SuppressedScope)]
    /\ UNCHANGED <<SELECTED, IDX_GEN, LOCK, tpc, idx, f_idx, f_selected, f_dirty, f_changed,
                   verdict>>
    /\ UNCHANGED nonConsoleVars

\* leaving the scope of suppressed(), whether the body completed or raised
SuppressExit(t) ==
    /\ tpc[t] \in {"run", "unwind"}
    /\ scopes[t] # <<>>
    /\ Top(scopes[t]).kind = "suppressed"
    /\ CONTEXT' = ContextExit(CONTEXT, t)
    /\ scopes' = [scopes EXCEPT ![t] = Rest(@)]
    /\ UNCHANGED <<SELECTED, IDX_GEN, LOCK, tpc, idx, f_idx, f_selected, f_dirty, f_changed,
                   verdict>>
    /\ UNCHANGED nonConsoleVars

\* the body of the innermost scope raises
BodyRaises(t) ==
    /\ tpc[t] = "run"
    /\ scopes[t] # <<>>
    /\ tpc' = [tpc EXCEPT ![t] = "unwind"]
    /\ UNCHANGED <<SELECTED, IDX_GEN, LOCK, CONTEXT, scopes, idx, f_idx, f_selected, f_dirty,
                   f_changed, verdict>>
    /\ UNCHANGED nonConsoleVars

\* the exception is caught by the thread's code at the current nesting level
Caught(t) ==
    /\ tpc[t] = "unwind"
    /\ tpc' = [tpc EXCEPT ![t] = "run"]
    /\ UNCHANGED <<SELECTED, IDX_GEN, LOCK, CONTEXT, scopes, idx, f_idx, f_selected, f_dirty,
                   f_changed, verdict>>
    /\ UNCHANGED nonConsoleVars

\* filter, line 150: selected = False
FilterStart(t) ==
    /\ tpc[t] = "run"
    /\ f_selected' = [f_selected EXCEPT ![t] = "False"]
    /\ f_changed' = [f_changed EXCEPT ![t] = FALSE]
    /\ verdict' = [verdict EXCEPT ![t] = "none"]
    /\ tpc' = [tpc EXCEPT ![t] = "f_iter"]
    /\ UNCHANGED <<SELECTED, IDX_GEN, LOCK, CONTEXT, scopes, idx, f_idx, f_dirty>>
    /\ UNCHANGED nonConsoleVars

\* filter, lines 151-152: in the loop, reversed(self.SELECTED) makes the iterator
FilterReversed(t) ==
    /\ tpc[t] = "f_iter"
    /\ f_dirty' = [f_dirty EXCEPT ![t] = FALSE]
    /\ tpc' = [tpc EXCEPT ![t] = "f_next"]
    /\ UNCHANGED <<SELECTED, IDX_GEN, LOCK, CONTEXT, scopes, idx, f_idx, f_selected, f_changed,
                   verdict>>
    /\ UNCHANGED nonConsoleVars

\* filter, lines 152-155: idx = next(iterator, None), which raises
\* RuntimeError when the registry changed since the iterator was made
FilterNext(t) ==
    /\ tpc[t] = "f_next"
    /\ IF f_dirty[t]
       THEN /\ verdict' = [verdict EXCEPT ![t] = "RuntimeError"]
            /\ tpc' = [tpc EXCEPT ![t] = "unwind"]
            /\ f_dirty' = [f_dirty EXCEPT ![t] = FALSE]
            /\ f_changed' = [f_changed EXCEPT ![t] = FALSE]
            /\ f_selected' = [f_selected EXCEPT ![t] = "False"]
            /\ f_idx' = [f_idx EXCEPT ![t] = NoIdx]
       ELSE /\ f_idx' = [f_idx EXCEPT ![t] = Newest(SELECTED)]
            /\ IF Newest(SELECTED) = NoIdx
               THEN /\ f_selected' = [f_selected EXCEPT ![t] = "None"]
                    /\ tpc' = [tpc EXCEPT ![t] = "f_ret"]
               ELSE /\ tpc' = [tpc EXCEPT ![t] = "f_get"]
                    /\ f_selected' = f_selected
            /\ UNCHANGED <<f_dirty, f_changed, verdict>>
    /\ UNCHANGED <<SELECTED, IDX_GEN, LOCK, CONTEXT, scopes, idx>>
    /\ UNCHANGED nonConsoleVars

\* filter, line 156: selected = self.SELECTED.get(idx, False)
FilterGet(t) ==
    /\ tpc[t] = "f_get"
    /\ f_selected' = [f_selected EXCEPT ![t] = Get(SELECTED, f_idx[t])]
    /\ tpc' = [tpc EXCEPT ![t] = IF Get(SELECTED, f_idx[t]) = "False" THEN "f_iter" ELSE "f_ret"]
    /\ UNCHANGED <<SELECTED, IDX_GEN, LOCK, CONTEXT, scopes, idx, f_idx, f_dirty, f_changed,
                   verdict>>
    /\ UNCHANGED nonConsoleVars

\* a verdict that lets suppression silence the selected thread
FilterResult_suppressing(t) ==
    /\ f_selected[t] \in {"None", t}
    /\ ContextRead(CONTEXT, t) = 0

\* filter, lines 158-160: the value returned
FilterResult(t) ==
    IF f_selected[t] \notin {"False", "None"}
    THEN f_selected[t] = t
    ELSE ContextRead(CONTEXT, t) = 0

FilterReturn(t) ==
    /\ tpc[t] = "f_ret"
    /\ verdict' = [verdict EXCEPT ![t] = IF FilterResult(t) THEN "allow" ELSE "deny"]
    /\ f_selected' = [f_selected EXCEPT ![t] = "False"]
    /\ f_idx' = [f_idx EXCEPT ![t] = NoIdx]
    /\ f_changed' = [f_changed EXCEPT ![t] = FALSE]
    /\ tpc' = [tpc EXCEPT ![t] = "run"]
    /\ UNCHANGED <<SELECTED, IDX_GEN, LOCK, CONTEXT, scopes, idx, f_dirty>>
    /\ UNCHANGED nonConsoleVars

ConsoleInit ==
    /\ RetryIdle
    /\ BackoffIdle
    /\ DecoIdle
    /\ ConsoleIdle
    /\ LaterIdle

ConsoleNext ==
    \E t \in Threads :
        \/ SoloAcquire(t)
        \/ SoloNextIdx(t)
        \/ SoloInsert(t)
        \/ SoloRelease(t)
        \/ SoloExit(t)
        \/ SuppressEnter(t)
        \/ SuppressExit(t)
        \/ BodyRaises(t)
        \/ Caught(t)
        \/ FilterStart(t)
        \/ FilterReversed(t)
        \/ FilterNext(t)
        \/ FilterGet(t)
        \/ FilterReturn(t)

SpecConsole == ConsoleInit /\ [][ConsoleNext]_vars

ConsoleTypeOK ==
    /\ IDX_GEN \in 0..MaxTickets
    /\ LOCK \in Threads \cup {NoThread}
    /\ \A t \in Threads : Len(scopes[t]) <= MaxDepth

\* ------------------------------------------------------------- properties
Last(q) == q[Len(q)]

\* retry gave up because the stop condition reported expiry
Exhausted == api = "retry" /\ pc = "done" /\ trace # <<>> /\ Last(trace) = "expired"

\* the exception being handled is the one the latest invocation raised, and
\* it left retry from that attempt: nothing slept, nothing charged for it
PropagatedAtOnce ==
    /\ pc = "done"
    /\ outcome.kind = "raised"
    /\ outcome.exc = exc
    /\ exc.id = calls

\* the steps taken since the latest invocation of the operation
SinceLastCall ==
    LET k == CHOOSE i \in 1..Len(trace) :
                 trace[i] = "call" /\ \A j \in (i + 1)..Len(trace) : trace[j] # "call"
    IN  SubSeq(trace, k + 1, Len(trace))

\* the budget and the sleeps account for the earlier attempts only
NotCharged ==
    /\ stopper.times = times - (calls - 1)
    /\ Len(sleeps) = calls - 1
    /\ \A j \in 1..Len(SinceLastCall) : SinceLastCall[j] \notin {"expired", "delay", "sleep"}

\* C1: retry with an integer budget N on an operation that fails acceptably
\* every time invokes it exactly N+1 times before raising, and never more
\* than N+1 times in any run.
C1_InvokedTimesPlusOne ==
    /\ api = "retry" => calls <= times + 1
    /\ Exhausted => calls = times + 1 /\ outcome.kind = "raised"

C1_Witness == Exhausted /\ times = MaxTimes /\ calls = MaxTimes + 1

\* C2 (as claimed): with times=3 and acceptable=ValueError on an operation
\* that always raises ValueError, the exception that propagates is the one
\* raised by the 3rd invocation.
C2_ThirdPropagates ==
    (Exhausted /\ times = 3 /\ acceptable = {"ValueError"} /\ exc.type = "ValueError")
        => outcome.exc.id = 3

\* C2 (amended): with times=3 and acceptable=ValueError on an operation that
\* always raises ValueError, retry gives up after exactly 4 failed attempts
\* and the exception that propagates is the one raised by the 4th invocation.
C2_FourthPropagates ==
    (Exhausted /\ times = 3 /\ acceptable = {"ValueError"} /\ exc.type = "ValueError")
        => calls = 4 /\ outcome.kind = "raised" /\ outcome.exc.id = 4
           /\ outcome.exc.type = "ValueError"

C2_Witness ==
    Exhausted /\ times = 3 /\ acceptable = {"ValueError"} /\ outcome.exc.type = "ValueError"
        /\ Len(sleeps) = 3

\* C3: when retry gives up on an exhausted stop condition, what propagates
\* is the very exception the final invocation raised, not a substitute, and
\* no value is returned.
C3_LastExceptionPropagates ==
    Exhausted =>
        /\ outcome.kind = "raised"
        /\ outcome.exc = exc
        /\ exc.id = calls
        /\ exc.type \in Raisable

C3_Witness == Exhausted /\ times = 2 /\ outcome.exc.type = "OSError" /\ outcome.exc.id = 3

\* C4 (as claimed): whatever `unacceptable` and `acceptable` the caller
\* passes, a NameError, AttributeError, TypeError or KeyboardInterrupt
\* propagates from the attempt that raised it, in retry (no sleep, no further
\* invocation) and in resilience (not swallowed).
C4_ProgrammerErrorsPropagate ==
    (exc.type \in UNACCEPTABLE_EXCEPTIONS) =>
        \/ pc \in {"except", "r_except"}
        \/ PropagatedAtOnce /\ Last(trace) = "call"

\* C5: in retry an exception matching both the caller's `unacceptable` and
\* `acceptable` is re-raised from the attempt that raised it, with no sleep,
\* no further invocation, and the stop condition untouched.
C5_UnacceptableWins ==
    (/\ api = "retry"
     /\ exc.id = calls
     /\ ExceptMatches(exc, unacceptable_arg.classes)
     /\ ExceptMatches(exc, acceptable))
        => \/ pc = "except" /\ NotCharged
           \/ PropagatedAtOnce /\ Last(trace) = "call" /\ NotCharged

C5_Witness ==
    /\ api = "retry" /\ pc = "done" /\ calls = 2
    /\ exc.type = "UnicodeError" /\ acceptable = {"ValueError"}
    /\ unacceptable_arg.classes = {"UnicodeError", "OSError"}
    /\ outcome.exc = exc

\* C6: when the k-th invocation succeeds, retry returns that invocation's
\* result after exactly k invocations and k-1 sleeps, k <= times+1, and it
\* does nothing afterwards.
C6_ReturnsResult ==
    (api = "retry" /\ outcome.kind = "returned") =>
        /\ pc = "done"
        /\ outcome.value = Result(calls)
        /\ calls <= times + 1
        /\ Len(sleeps) = calls - 1
        /\ Cardinality({i \in 1..Len(trace) : trace[i] = "call"}) = calls
        /\ Last(trace) = "call"
        /\ ~ENABLED Next

C6_Witness ==
    api = "retry" /\ outcome.kind = "returned" /\ outcome.value = Result(3) /\ Len(sleeps) = 2

\* C7: in retry an exception that does not match `acceptable`, or that the
\* predicate rejects, propagates from the attempt that raised it with no
\* sleep and without the stop condition being read or decremented for it.
C7_RejectedNotCharged ==
    (/\ api = "retry"
     /\ exc.id = calls /\ calls > 0
     /\ pc # "attempt"
     /\ ~ExceptMatches(exc, acceptable) \/ ~PredResult(pred, exc))
        => /\ pc \in {"except", "async", "pred"} \/ PropagatedAtOnce
           /\ NotCharged

C7_Witness ==
    /\ api = "retry" /\ pc = "done" /\ calls = 2 /\ outcome.exc = exc
    /\ ExceptMatches(exc, acceptable) /\ ~ExceptMatches(exc, unacceptable)
    /\ ~exc.async /\ pred = "RejectUnicode" /\ exc.type = "UnicodeError"

C7_WitnessUnmatched ==
    /\ api = "retry" /\ pc = "done" /\ calls = 2 /\ outcome.exc = exc
    /\ ~ExceptMatches(exc, acceptable) /\ ~ExceptMatches(exc, unacceptable)

\* C8: an exception carrying the raised-asynchronously tag is never retried
\* by retry (no sleep, no further invocation) and never swallowed by
\* resilient (the default is not returned): it propagates.
C8_AsyncPropagates ==
    (exc.async /\ exc.id = calls) =>
        /\ pc \in {"except", "async", "r_except", "r_pred", "r_async"} \/ PropagatedAtOnce
        /\ Len(sleeps) = calls - 1
        /\ "swallow" \notin {trace[i] : i \in 1..Len(trace)}

C8_Witness ==
    /\ api = "retry" /\ pc = "done" /\ exc.async /\ outcome.exc = exc
    /\ Last(trace) = "raise_async" /\ pred = "None" /\ stopper.times > 0

C8_WitnessResilient ==
    /\ api = "resilient" /\ pc = "done" /\ exc.async /\ outcome.exc = exc
    /\ Last(trace) = "raise_async"

\* C9 (as claimed): neither retry nor resilience ever evaluates the caller's
\* predicate on an exception that carries the raised-asynchronously tag.
C9_PredNeverSeesAsync == \A e \in pred_seen : ~e.async

\* C10: each retried failure goes through, once each and in this order, the
\* stop check, the log of the exception at the configured level, the delay
\* (0 when no sleep is configured), the log of the remaining budget and the
\* delay, and the sleep for that delay; only then is the operation invoked
\* again, so every re-invocation is preceded by exactly one sleep.
RetrySteps == <<"not_async", "pred", "expired", "log_exc", "delay", "log_retry", "sleep">>

C10_RetryStepOrder ==
    api = "retry" =>
        /\ \A i \in 2..Len(trace) : trace[i] = "call" =>
              /\ i > Len(RetrySteps) + 1
              /\ SubSeq(trace, i - Len(RetrySteps), i - 1) = RetrySteps
              /\ trace[i - Len(RetrySteps) - 1] = "call"
        /\ Len(sleeps) = Cardinality({i \in 1..Len(trace) : trace[i] = "sleep"})
        /\ pc = "attempt" => Len(sleeps) = calls
        /\ pc \in {"except", "done"} => Len(sleeps) = calls - 1
        /\ \A j \in 1..Len(sleeps) :
              /\ Len(log) >= 2 * j
              /\ log[2 * j - 1] = [level |-> log_level, msg |-> "Exception thrown",
                                   exc |-> j, remain |-> 0, sleep_for |-> Zero]
              /\ log[2 * j].level = log_level
              /\ log[2 * j].msg = "Retrying..."
              /\ log[2 * j].sleep_for = sleeps[j]
              /\ ~Truthy(sleep) => sleeps[j] = Zero
              /\ (sleep.kind = "number") => sleeps[j] = sleep.initial

C10_Witness ==
    /\ api = "retry" /\ pc = "attempt" /\ calls = 2 /\ Len(sleeps) = 2
    /\ sleep.kind = "number" /\ sleeps = <<Zero, Zero>>

C10_WitnessBackoff ==
    /\ api = "retry" /\ pc = "done" /\ Len(sleeps) = 2
    /\ sleep.kind = "ExponentialBackoff" /\ sleeps = <<Rat(2, 1), Rat(3, 1)>>

\* ----------------------------------------------------- backoff properties
RECURSIVE RatPow(_, _)
RatPow(x, k) == IF k = 0 THEN Rat(1, 1) ELSE RatMul(x, RatPow(x, k - 1))

\* the smaller of two numbers, as mathematics has it
Least(x, y) == IF x[1] * y[2] <= y[1] * x[2] THEN x ELSE y

\* min(initial * base^k, maximum)
ClosedForm(k) == Least(RatMul(bo.initial, RatPow(bo.base, k)), bo.maximum)

\* the growth state after k calls: k times current = min(current * base, maximum)
RECURSIVE GrowthState(_)
GrowthState(k) ==
    IF k = 0 THEN bo.initial
    ELSE Least(RatMul(GrowthState(k - 1), bo.base), bo.maximum)

IsExponential == bo.kind = "ExponentialBackoff"
IsRandom == bo.kind = "RandomExponentialBackoff"
Calls == 1..Len(returned)

\* each call grows the state by the recurrence and returns the grown state
BackoffRecurrence ==
    /\ bo.current = GrowthState(Len(returned))
    /\ \A k \in Calls : returned[k] = GrowthState(k)

\* the first six values of ExponentialBackoff(initial=1, maximum=30, base=2)
DocumentedValues ==
    <<Rat(2, 1), Rat(4, 1), Rat(8, 1), Rat(16, 1), Rat(30, 1), Rat(30, 1)>>

DocumentedCase ==
    (bo.initial = Rat(1, 1) /\ bo.base = Rat(2, 1) /\ bo.maximum = Rat(30, 1))
        => \A k \in Calls : k <= Len(DocumentedValues) => returned[k] = DocumentedValues[k]

\* for base >= 1 and initial <= maximum: non-decreasing, never above maximum
MonotoneCapped ==
    (RatLeq(Rat(1, 1), bo.base) /\ RatLeq(bo.initial, bo.maximum))
        => \A k \in Calls :
              /\ RatLeq(returned[k], bo.maximum)
              /\ k > 1 => RatLeq(returned[k - 1], returned[k])

\* C11 (as claimed): the k-th call of an ExponentialBackoff sets
\* current = min(current * base, maximum) and returns it, the values returned
\* are min(initial * base^k, maximum) whatever the base, (1, 30, 2) yields
\* 2, 4, 8, 16, 30, 30, and for base >= 1 and initial <= maximum the values
\* are non-decreasing and never exceed maximum.
C11_ClosedFormAnyBase ==
    IsExponential =>
        /\ BackoffRecurrence
        /\ \A k \in Calls : returned[k] = ClosedForm(k)
        /\ DocumentedCase
        /\ MonotoneCapped

\* C11 (amended): the k-th call sets current = min(current * base, maximum)
\* and returns it; for base >= 1 (initial and maximum not negative) the
\* values returned are min(initial * base^k, maximum); (1, 30, 2) yields
\* 2, 4, 8, 16, 30, 30; for base >= 1 and initial <= maximum the values are
\* non-decreasing and never exceed maximum.
C11_ClosedFormGrowingBase ==
    IsExponential =>
        /\ BackoffRecurrence
        /\ RatLeq(Rat(1, 1), bo.base) => \A k \in Calls : returned[k] = ClosedForm(k)
        /\ DocumentedCase
        /\ MonotoneCapped

C11_Witness == IsExponential /\ returned = DocumentedValues

\* C12 (as claimed): a RandomExponentialBackoff grows its state like an
\* ExponentialBackoff, and each call returns r * current + initial for the
\* r drawn in that call, whatever the maximum.
C12_JitterUncapped ==
    IsRandom =>
        /\ bo.current = GrowthState(Len(returned))
        /\ \A k \in Calls :
              returned[k] = RatAdd(RatMul(draws[k], GrowthState(k)), bo.initial)

\* C12 (amended): a RandomExponentialBackoff grows its state like an
\* ExponentialBackoff, and each call returns
\* min(r * current + initial, maximum) for the r drawn in that call.
C12_JitterCapped ==
    IsRandom =>
        /\ bo.current = GrowthState(Len(returned))
        /\ \A k \in Calls :
              returned[k] = Least(RatAdd(RatMul(draws[k], GrowthState(k)), bo.initial),
                                  bo.maximum)

\* one call returned the jittered value below the ceiling, a later one was cut
C12_Witness ==
    /\ IsRandom
    /\ Len(returned) >= 2
    /\ returned[1] = RatAdd(RatMul(draws[1], GrowthState(1)), bo.initial)
    /\ draws[1] # Zero /\ returned[1] # bo.maximum
    /\ \E k \in Calls :
          /\ returned[k] = bo.maximum
          /\ ~RatLeq(RatAdd(RatMul(draws[k], GrowthState(k)), bo.initial), bo.maximum)

\* ---------------------------------------------------- retrying properties
\* a call of the decorated function is about to make its first attempt
CallStarts == impl_calls > 0 /\ pc = "attempt" /\ calls = 0

\* the call runs with the arguments bound at decoration time
BoundConfiguration ==
    impl_calls > 0 =>
        /\ times = deco.times
        /\ acceptable = deco.acceptable
        /\ pred = deco.pred
        /\ log_level = deco.log_level
        /\ unacceptable = UNACCEPTABLE_EXCEPTIONS

\* whatever earlier calls consumed, the call starts with the whole budget and
\* may invoke the function up to times + 1 times
FreshBudget ==
    /\ CallStarts => stopper.times = deco.times
    /\ impl_calls > 0 => calls <= deco.times + 1
    /\ Exhausted => calls = deco.times + 1

\* C13 (as claimed): every call of a function decorated with retrying runs
\* with the configuration bound at decoration time, a fresh budget and a
\* fresh backoff state, so it may invoke the function up to N+1 times
\* whatever earlier calls consumed.
C13_FreshBudgetAndBackoff ==
    /\ BoundConfiguration
    /\ FreshBudget
    /\ (CallStarts /\ Callable(sleep)) => sleep.current = sleep.initial

\* C13 (amended): every call of a function decorated with retrying runs with
\* the configuration bound at decoration time and a fresh budget, so it may
\* invoke the function up to N+1 times whatever earlier calls consumed; the
\* backoff state is fresh when the backoff is built from max_sleep, while a
\* backoff object passed as `sleep` is shared by all the calls.
C13_FreshBudget ==
    /\ BoundConfiguration
    /\ FreshBudget
    /\ (CallStarts /\ deco.max_sleep # 0) =>
          sleep.kind = "RandomExponentialBackoff" /\ sleep.current = sleep.initial
    /\ (CallStarts /\ deco.max_sleep = 0 /\ impl_calls = 1) => sleep = deco.sleep
    /\ (CallStarts /\ deco.max_sleep = 0) => sleep.kind = deco.sleep.kind

\* a second call that used its whole budget after the first call had used its own
C13_Witness ==
    /\ impl_calls = 2 /\ Exhausted
    /\ times = MaxTimes /\ calls = MaxTimes + 1 /\ consumed = MaxTimes + 1

\* ----------------------------------------------------- console properties
Tickets == {SELECTED[i] : i \in 1..Len(SELECTED)}

\* the ticket with the highest id among those present
Highest == CHOOSE e \in Tickets : \A f \in Tickets : f.idx <= e.idx

\* the solo scopes a thread is in
SoloIdx(t) == {scopes[t][i].idx : i \in {j \in 1..Len(scopes[t]) : scopes[t][j].kind = "solo"}}

\* the thread inserted its ticket and has not reached its body yet
Pending(t) == tpc[t] = "solo_unlock"

\* the tickets of the solo scopes that were entered and not exited, with owners
OpenTickets ==
    UNION {{[idx |-> i, thread |-> t] : i \in SoloIdx(t)} : t \in Threads}
        \cup {[idx |-> idx[t], thread |-> t] : t \in {u \in Threads : Pending(u)}}

\* the number of suppressed() scopes a thread is in
Suppressions(t) ==
    Cardinality({j \in 1..Len(scopes[t]) : scopes[t][j].kind = "suppressed"})

AsVerdict(b) == IF b THEN "allow" ELSE "deny"

\* C14: a filter call during which the registry did not change allows the
\* event of thread T, when a ticket is present, iff T owns the highest
\* ticket, whatever the suppression counters are; and when no ticket is
\* present, iff T's suppression counter is 0.
C14_FilterDecision ==
    [][\A t \in Threads :
          (tpc[t] = "f_ret" /\ tpc'[t] = "run" /\ ~f_changed[t]) =>
              verdict'[t] = AsVerdict(IF Tickets # {} THEN Highest.thread = t
                                      ELSE Suppressions(t) = 0)]_vars

\* a suppressed thread was allowed because it is the selected one
C14_Witness ==
    \E t \in Threads :
        /\ tpc[t] = "run" /\ verdict[t] = "allow"
        /\ Suppressions(t) > 0
        /\ Tickets # {} /\ Highest.thread = t

\* C15: tickets are removed in any order; the registry holds exactly the
\* tickets of the solo scopes still open, and the ticket the filter reads
\* first is the highest of them (none when none remain), so with T1, T2, T3
\* acquired in that order, removing T2 leaves T3's owner selected and then
\* removing T3 leaves T1's owner selected.
C15_HighestRemainingSelected ==
    /\ Tickets = OpenTickets
    /\ Len(SELECTED) = Cardinality(OpenTickets)
    /\ Tickets # {} =>
          /\ Newest(SELECTED) = Highest.idx
          /\ Get(SELECTED, Newest(SELECTED)) = Highest.thread
    /\ Tickets = {} => Newest(SELECTED) = NoIdx

\* T2 was removed while T1 and T3, of different threads, are still present
C15_Witness ==
    /\ Len(SELECTED) = 2
    /\ SELECTED[1].idx = 0 /\ SELECTED[2].idx = 2
    /\ SELECTED[1].thread # SELECTED[2].thread

\* C16: a thread inside a solo scope is the selected one unless another
\* thread entered a later solo; a solo scope that was exited, normally or by
\* an exception of its body, has no ticket in the registry; with no solo
\* active the filter finds no selection and decides by the suppression counter.
C16_SoloScope ==
    /\ \A t \in Threads : \A i \in SoloIdx(t) :
          /\ Get(SELECTED, i) = t
          /\ (\A e \in Tickets : e.idx > i => e.thread = t)
                => Get(SELECTED, Newest(SELECTED)) = t
    /\ Tickets \subseteq OpenTickets
    /\ \A t \in Threads :
          (tpc[t] = "f_ret" /\ OpenTickets = {} /\ ~f_changed[t]) =>
              /\ f_selected[t] = "None"
              /\ FilterResult(t) = (Suppressions(t) = 0)

\* a thread left its only solo scope by an exception and the registry is empty
C16_Witness ==
    /\ tpc["A"] = "unwind" /\ scopes["A"] = <<>>
    /\ tpc["B"] = "run" /\ scopes["B"] = <<>> /\ verdict["B"] = "none"
    /\ IDX_GEN = 1 /\ SELECTED = <<>>

\* C17: ticket ids are allocated once each and in increasing order, the
\* registry iterates in increasing id order, and at most one thread is
\* selected: the owner of the highest present ticket.
C17_TicketOrder ==
    /\ \A i \in 1..Len(SELECTED) :
          /\ SELECTED[i].idx \in 0..(IDX_GEN - 1)
          /\ i > 1 => SELECTED[i - 1].idx < SELECTED[i].idx
    /\ \A t \in Threads : tpc[t] = "solo_set" =>
          /\ idx[t] \in 0..(IDX_GEN - 1)
          /\ \A e \in Tickets : e.idx < idx[t]
          /\ \A u \in Threads \ {t} : tpc[u] = "solo_set" => idx[u] # idx[t]
    /\ \A t, u \in Threads : t # u => SoloIdx(t) \cap SoloIdx(u) = {}
    /\ \A t \in Threads : Cardinality(SoloIdx(t)) =
          Cardinality({j \in 1..Len(scopes[t]) : scopes[t][j].kind = "solo"})
    /\ Cardinality({t \in Threads : Tickets # {} /\ Get(SELECTED, Newest(SELECTED)) = t}) <= 1
    /\ Tickets # {} => Get(SELECTED, Newest(SELECTED)) = Highest.thread

C17_Witness ==
    /\ Len(SELECTED) = 3
    /\ SELECTED[1].thread # SELECTED[3].thread
    /\ SELECTED[2].thread = "B"

\* C18 (as claimed): every change of the registry, insertion and removal, is
\* made by a thread that holds the lock.
C18_MutationsUnderLock ==
    [][SELECTED' # SELECTED =>
          \E t \in Threads :
              /\ LOCK = t
              /\ tpc'[t] # tpc[t] \/ scopes'[t] # scopes[t]]_vars

\* C19 (as claimed): a filter call is safe against concurrent solo entries
\* and exits: it never fails, it looks again when the ticket it picked is
\* gone, and a verdict comes from a ticket that was allocated and picked
\* from the registry during the call, or from the suppression counter when
\* the registry was seen empty.
C19_FilterSafe ==
    \A t \in Threads :
        /\ verdict[t] # "RuntimeError"
        /\ tpc[t] = "f_get" => f_idx[t] \in 0..(IDX_GEN - 1)
        /\ tpc[t] = "f_ret" =>
              \/ f_selected[t] = "None" /\ f_idx[t] = NoIdx
              \/ f_selected[t] \in Threads /\ f_idx[t] \in 0..(IDX_GEN - 1)

\* C20: a thread's suppression counter is the number of suppressed() scopes
\* it is in: each entry adds 1, each exit subtracts 1, it is back at its
\* prior value once nested scopes have unwound, it does not depend on what
\* other threads do, and the filter treats the thread as suppressed iff the
\* counter is above 0.
C20_SuppressionCounter ==
    \A t \in Threads :
        /\ ContextRead(CONTEXT, t) = Suppressions(t)
        /\ Len(CONTEXT[t]) = Suppressions(t)
        /\ (tpc[t] = "f_ret" /\ f_selected[t] = "None") =>
              (FilterResult(t) <=> Suppressions(t) = 0)

\* one thread is twice suppressed while the other, not suppressed, is
\* about to get its verdict from its own counter
C20_Witness ==
    /\ CONTEXT["A"] = <<1, 1>>
    /\ CONTEXT["B"] = <<>>
    /\ tpc["B"] = "f_ret" /\ f_selected["B"] = "None"

\* ------------------------------------------------ resilience, C27 and C28
\* a call of a resilient function has ended
ResilientDone == api = "resilient" /\ pc = "done"

\* the body raised
BodyRaised == exc # NoExc

\* the exception is one resilience handles: it matches `acceptable`, matches
\* nothing in the `unacceptable` tuple of lines 141-146, the predicate (if
\* any) accepts it and it does not carry the raised-asynchronously tag
Swallowable ==
    /\ ExceptMatches(exc, acceptable)
    /\ ~ExceptMatches(exc, unacceptable)
    /\ pred = "None" \/ PredResult(pred, exc)
    /\ ~exc.async

Swallowed == ResilientDone /\ BodyRaised /\ Last(trace) = "swallow"
Propagated == ResilientDone /\ BodyRaised /\ outcome.kind = "raised"

\* the records of the log at severity lvl
AtLevel(lvl) == SelectSeq(log, LAMBDA r : r.level = lvl)

SwallowRecord == LogRecord(log_level, "ignoring error", exc, 0, Zero)
TracebackRecord == LogRecord(DEBUG, "Traceback:", exc, 0, Zero)
AsyncRecord == LogRecord(INFO, "Raising asynchronous error", NoExc, 0, Zero)

C27_WitnessPropagates ==
    /\ Propagated /\ acceptable = {"ValueError"} /\ exc.type = "OSError"
    /\ unacceptable_arg.form = "tuple" /\ unacceptable_arg.classes = {}

\* what a swallowed exception leaves in the log
SwallowLogging ==
    Swallowed =>
        /\ Len(AtLevel(log_level)) = 1
        /\ log = IF log_level > DEBUG THEN <<SwallowRecord, TracebackRecord>>
                 ELSE <<SwallowRecord>>

\* C28 (as claimed): each swallowed exception produces exactly one record at
\* the configured severity, followed by one traceback record at debug
\* severity only when the configured severity is above debug; an exception
\* that resilience lets propagate produces no record at the configured
\* severity.
C28_PropagatingLogsNothing ==
    /\ SwallowLogging
    /\ Propagated => AtLevel(log_level) = <<>>

\* C28 (amended): the same for a swallowed exception; an exception that
\* resilience lets propagate produces no "ignoring error" and no traceback
\* record: the log stays empty, except for the one info record "Raising
\* asynchronous error" when the exception is re-raised for its tag.
C28_SwallowLoggedOnce ==
    /\ SwallowLogging
    /\ Propagated =>
          log = IF Last(trace) = "raise_async" THEN <<AsyncRecord>> ELSE <<>>

\* an exception swallowed at info severity: its record, then the traceback
C28_Witness ==
    /\ Swallowed /\ log_level = INFO
    /\ log = <<SwallowRecord, TracebackRecord>>

\* a tagged exception propagating from a resilience at info severity
C28_WitnessAsync ==
    /\ Propagated /\ log_level = INFO /\ exc.async
    /\ log = <<AsyncRecord>>

\* ------------------------------------- exception_to_boolean on its own
\* the `unacceptable` argument: a class or a tuple of classes
BooleanUnacceptableArgs == {a.classes : a \in {u \in UnacceptableArgs : u.form # "None"}}

\* exception_to_boolean(func, acceptable=..., unacceptable=...) applied, at
\* module level or in a class body: lines 223-226 and 229-233
BooleanInit ==
    /\ RetryIdle
    /\ BackoffIdle
    /\ DecoIdle
    /\ ConsoleIdle
    /\ LoggingIdle
    /\ MoreIdle
    /\ \E d \in Decorated, acc \in AcceptableArgs, una \in BooleanUnacceptableArgs,
          c \in Raisable \cup {"None"}, a \in BOOLEAN :
        /\ c = "None" => ~a
        /\ desc = Descriptor(d.func, acc, una)
        /\ fbody = IF c = "None" THEN NoExc ELSE NewExc(c, a, 1)
        /\ via = IF d.place = "module" THEN "module" ELSE "none"
        /\ wrapper = IF d.place = "module" THEN desc ELSE NoDescriptor
        /\ bpc = IF d.place = "module" THEN "held" ELSE "decorated"
    /\ explicit = 0
    /\ b_exc = NoExc
    /\ b_out = NoCall

\* the wrapper read as an attribute of an instance or of the class: __get__,
\* lines 247-251
GetAttr ==
    /\ via # "module"
    /\ \E access \in {"instance", "class"} :
        /\ via' = access
        /\ wrapper' = DescriptorGet(desc, IF access = "instance" THEN "instance" ELSE "None",
                                    "class")
    /\ bpc' = "held"
    /\ UNCHANGED <<desc, fbody, explicit, b_exc, b_out>>
    /\ UNCHANGED <<retryVars, backoffVars, decoVars, consoleVars, logVars, moreVars>>

\* wrapper(...): __call__, lines 235-245
WrapperCall ==
    /\ bpc # "decorated"
    /\ \E n \in 0..1 :
        /\ explicit' = n
        /\ b_exc' = CallRaises(wrapper.func, n, fbody)
        /\ b_out' = ExceptionToBoolean(wrapper, CallRaises(wrapper.func, n, fbody))
    /\ bpc' = "called"
    /\ UNCHANGED <<desc, fbody, via, wrapper>>
    /\ UNCHANGED <<retryVars, backoffVars, decoVars, consoleVars, logVars, moreVars>>

\* wrapper.func(...): the attribute set at line 230, called directly
FuncCall ==
    /\ bpc # "decorated"
    /\ \E n \in 0..1 :
        /\ explicit' = n
        /\ b_exc' = CallRaises(wrapper.func, n, fbody)
        /\ b_out' = CallOutcome(wrapper.func, n, fbody)
    /\ bpc' = "func_called"
    /\ UNCHANGED <<desc, fbody, via, wrapper>>
    /\ UNCHANGED <<retryVars, backoffVars, decoVars, consoleVars, logVars, moreVars>>

BooleanNext ==
    \/ GetAttr
    \/ WrapperCall
    \/ FuncCall

SpecBoolean == BooleanInit /\ [][BooleanNext]_vars

\* ------------------------------------------ exception_to_boolean, C24-C26
True == [kind |-> "returned", value |-> "True", exc |-> NoExc]
False == [kind |-> "returned", value |-> "False", exc |-> NoExc]
Raises(e) == [kind |-> "raised", value |-> "", exc |-> e]

\* the latest call was a call of the wrapper / of its .func accessor
WrapperCalled == bpc = "called"
AccessorCalled == bpc = "func_called"

\* the function raised an exception the wrapper converts
Convertible ==
    /\ b_exc # NoExc
    /\ ExceptMatches(b_exc, desc.acceptable)
    /\ ~ExceptMatches(b_exc, desc.unacceptable)
    /\ ~ExceptMatches(b_exc, {"NameError", "AttributeError", "TypeError", "KeyboardInterrupt"})

\* C24: the wrapper returns True iff the function completes without raising,
\* False iff it raises an exception that matches `acceptable` and neither the
\* caller's `unacceptable` nor the built-in set, and in every other case the
\* original exception propagates unchanged (unacceptable wins over
\* acceptable).
C24_ResultTable ==
    WrapperCalled =>
        /\ b_out = True <=> b_exc = NoExc
        /\ b_out = False <=> Convertible
        /\ (b_exc # NoExc /\ ~Convertible) => b_out = Raises(b_exc)

\* an exception of a subclass listed as unacceptable, while its parent class
\* is acceptable, propagates
C24_Witness ==
    /\ WrapperCalled /\ b_exc.type = "UnicodeError"
    /\ desc.acceptable = {"ValueError"} /\ "UnicodeError" \in desc.unacceptable
    /\ b_out = Raises(b_exc)

C24_WitnessFalse ==
    /\ WrapperCalled /\ b_exc.type = "ValueError" /\ desc.acceptable = {"ValueError"}
    /\ desc.unacceptable = {"UnicodeError", "OSError"} /\ b_out = False

\* the undecorated callable, reached the way the wrapper was reached
Undecorated ==
    IF via = "module" THEN desc.func
    ELSE FuncGet(desc.func, IF via = "instance" THEN "instance" ELSE "None", "class")

\* C25: the .func accessor behaves like the undecorated callable, for a plain
\* function and for instance methods, classmethods and staticmethods reached
\* through an instance or through the class: it returns what the function
\* returns, raises the original exception whenever the function raises, and
\* never yields the wrapper's boolean.
C25_AccessorIsUndecorated ==
    AccessorCalled =>
        /\ b_out = CallOutcome(Undecorated, explicit, fbody)
        /\ b_out.value \notin {"True", "False"}
        /\ b_exc # NoExc => b_out = Raises(b_exc)

\* an instance method reached through an instance: its body ran with the
\* instance as receiver and its acceptable exception came out of .func
C25_Witness ==
    /\ AccessorCalled /\ via = "instance" /\ desc.func = Function("function", 1)
    /\ explicit = 0 /\ b_exc = fbody /\ Convertible /\ b_out = Raises(fbody)

C25_WitnessClassmethod ==
    /\ AccessorCalled /\ via = "class" /\ desc.func = Function("classmethod", 1)
    /\ explicit = 0 /\ b_exc = fbody /\ Convertible /\ b_out = Raises(fbody)

\* C26 (as claimed): an exception carrying the raised-asynchronously tag is
\* always re-raised by the wrapper, never converted into False, even when it
\* matches `acceptable`.
C26_AsyncNeverConverted ==
    (WrapperCalled /\ b_exc.async) => b_out = Raises(b_exc)

\* ------------------------------------------- scopes of the logging context
nonLoggingVars == <<retryVars, backoffVars, decoVars, consoleVars, boolVars, moreVars>>

\* get_indentation on the innermost scope only
get_indentation_innermost(ctx, t) == IF ctx[t] = <<>> THEN 0 ELSE Top(ctx[t]).indentation

\* get_indentation, lines 196-197
get_indentation(ctx, t) == CounterRead(ctx, t)

\* what the thread reads at lines 197 and 604
Read(ctx, t) == [indentation |-> get_indentation(ctx, t), context |-> StackRead(ctx, t)]

\* the bookkeeping of a thread entering a scope with update u
Entering(t, u) ==
    /\ opened' = [opened EXCEPT ![t] = Append(@, [update |-> u,
                                                   before |-> Reading(THREAD_LOGGING_CONTEXT, t)])]
    /\ restored' = [restored EXCEPT ![t] = NoReading]

\* the bookkeeping of a thread leaving its innermost scope
Leaving(t) ==
    /\ opened' = [opened EXCEPT ![t] = Rest(@)]
    /\ restored' = [restored EXCEPT ![t] = Top(opened[t]).before]

\* a scope whose update lands on every thread
LogContextEnter_shared(t) ==
    /\ lpc[t] = "run"
    /\ Len(opened[t]) < MaxScopes
    /\ \E tag \in Tags :
        /\ THREAD_LOGGING_CONTEXT' =
               [u \in Threads |-> Append(THREAD_LOGGING_CONTEXT[u], Update(0, tag))]
        /\ Entering(t, Update(0, tag))
    /\ UNCHANGED <<lpc, seen, rv, extra_arg>>
    /\ UNCHANGED nonLoggingVars

\* a method decorated with log_context is called: lines 544-547, likewise
\* logger.context(context) at line 329
LogContextEnter(t) ==
    /\ lpc[t] = "run"
    /\ Len(opened[t]) < MaxScopes
    /\ \E tag \in Tags :
        /\ THREAD_LOGGING_CONTEXT' = ContextEnter(THREAD_LOGGING_CONTEXT, t, Update(0, tag))
        /\ Entering(t, Update(0, tag))
    /\ UNCHANGED <<lpc, seen, rv, extra_arg>>
    /\ UNCHANGED nonLoggingVars

\* logger.indented(...) reaches its body: line 355
IndentedEnter(t) ==
    /\ lpc[t] = "run"
    /\ Len(opened[t]) < MaxScopes
    /\ THREAD_LOGGING_CONTEXT' = ContextEnter(THREAD_LOGGING_CONTEXT, t, Update(1, "None"))
    /\ Entering(t, Update(1, "None"))
    /\ UNCHANGED <<lpc, seen, rv, extra_arg>>
    /\ UNCHANGED nonLoggingVars

\* the body of the innermost with block ends normally: lines 547-548
ScopeExit(t) ==
    /\ lpc[t] = "run"
    /\ opened[t] # <<>>
    /\ THREAD_LOGGING_CONTEXT' = ContextExit(THREAD_LOGGING_CONTEXT, t)
    /\ Leaving(t)
    /\ UNCHANGED <<lpc, seen, rv, extra_arg>>
    /\ UNCHANGED nonLoggingVars

\* the body of the innermost with block (or the thread's code outside any
\* scope) raises
LogBodyRaises(t) ==
    /\ lpc[t] = "run"
    /\ lpc' = [lpc EXCEPT ![t] = "raising"]
    /\ UNCHANGED <<THREAD_LOGGING_CONTEXT, opened, restored, seen, rv, extra_arg>>
    /\ UNCHANGED nonLoggingVars

\* an exception that passes a with block without closing its scope
ScopeUnwind_leaking(t) ==
    /\ lpc[t] \in {"raising", "unwinding"}
    /\ opened[t] # <<>>
    /\ Leaving(t)
    /\ lpc' = [lpc EXCEPT ![t] = "unwinding"]
    /\ UNCHANGED <<THREAD_LOGGING_CONTEXT, seen, rv, extra_arg>>
    /\ UNCHANGED nonLoggingVars

\* the exception leaves the innermost with block, which closes its scope:
\* line 547 (log_context), lines 354-355 (indented)
ScopeUnwind(t) ==
    /\ lpc[t] \in {"raising", "unwinding"}
    /\ opened[t] # <<>>
    /\ THREAD_LOGGING_CONTEXT' = ContextExit(THREAD_LOGGING_CONTEXT, t)
    /\ Leaving(t)
    /\ lpc' = [lpc EXCEPT ![t] = "unwinding"]
    /\ UNCHANGED <<seen, rv, extra_arg>>
    /\ UNCHANGED nonLoggingVars

\* the exception is handled by the code around the scopes it has left
ExceptionCaught(t) ==
    /\ lpc[t] \in {"raising", "unwinding"}
    /\ lpc' = [lpc EXCEPT ![t] = "run"]
    /\ extra_arg' = [extra_arg EXCEPT ![t] = NoExtra]
    /\ UNCHANGED <<THREAD_LOGGING_CONTEXT, opened, restored, seen, rv>>
    /\ UNCHANGED nonLoggingVars

\* the thread reads its indentation and its context tags: lines 197 and 604
ReadStore(t) ==
    /\ lpc[t] = "run"
    /\ seen' = [seen EXCEPT ![t] = Read(THREAD_LOGGING_CONTEXT, t)]
    /\ lpc' = [lpc EXCEPT ![t] = "seen"]
    /\ UNCHANGED <<THREAD_LOGGING_CONTEXT, opened, restored, rv, extra_arg>>
    /\ UNCHANGED nonLoggingVars

\* the thread goes on after a read or a record
Resume(t) ==
    /\ lpc[t] \in {"seen", "made"}
    /\ lpc' = [lpc EXCEPT ![t] = "run"]
    /\ seen' = [seen EXCEPT ![t] = NoReading]
    /\ rv' = [rv EXCEPT ![t] = NoRecord]
    /\ extra_arg' = [extra_arg EXCEPT ![t] = NoExtra]
    /\ UNCHANGED <<THREAD_LOGGING_CONTEXT, opened, restored>>
    /\ UNCHANGED nonLoggingVars

\* patched_makeRecord, lines 593-611
MakeRecord(t) ==
    /\ lpc[t] = "run"
    /\ \E e \in ExtraArgs :
        /\ extra_arg' = [extra_arg EXCEPT ![t] = e]
        /\ IF \E key \in LoopKeys(e) : Collides(key, BaseRecord)
           THEN /\ rv' = [rv EXCEPT ![t] = NoRecord]
                /\ lpc' = [lpc EXCEPT ![t] = "raising"]
           ELSE /\ rv' = [rv EXCEPT ![t] =
                             [made |-> TRUE, fields |-> Augmented(THREAD_LOGGING_CONTEXT, t, e)]]
                /\ lpc' = [lpc EXCEPT ![t] = "made"]
    /\ UNCHANGED <<THREAD_LOGGING_CONTEXT, opened, restored, seen>>
    /\ UNCHANGED nonLoggingVars

\* the context stores on their own: scopes of THREAD_LOGGING_CONTEXT and of
\* ThreadControl.CONTEXT, entered, left and read by two threads
ContextsNext ==
    \E t \in Threads :
        \/ LogContextEnter(t)
        \/ IndentedEnter(t)
        \/ ScopeExit(t)
        \/ LogBodyRaises(t)
        \/ ScopeUnwind(t)
        \/ ExceptionCaught(t)
        \/ ReadStore(t)
        \/ Resume(t)
        \/ SuppressEnter(t)
        \/ SuppressExit(t)

SpecContexts == Init /\ [][ContextsNext]_vars

\* records made by threads inside and outside scopes
LoggingNext ==
    \E t \in Threads :
        \/ LogContextEnter(t)
        \/ IndentedEnter(t)
        \/ ScopeExit(t)
        \/ LogBodyRaises(t)
        \/ ScopeUnwind(t)
        \/ ExceptionCaught(t)
        \/ MakeRecord(t)
        \/ Resume(t)

SpecLogging == Init /\ [][LoggingNext]_vars

\* ------------------------------------------------ context store, C21-C23
\* what a thread reads now
Now(t) == Reading(THREAD_LOGGING_CONTEXT, t)
Default == [indentation |-> 0, context |-> <<>>]

\* the deltas and the tags of the thread's own open scopes, outermost first
ActiveDeltas(t) == [i \in 1..Len(opened[t]) |-> opened[t][i].update.indentation]
ActiveTags(t) ==
    SelectSeq([i \in 1..Len(opened[t]) |-> opened[t][i].update.context],
              LAMBDA tag : tag # "None")

\* C21: on one thread, after a properly nested sequence of scope enters and
\* exits (exits by an exception included) has fully unwound, the counters and
\* stacks read as they did before the sequence: each exit restores what was
\* read before its matching enter, and with no scope open the thread reads 0
\* and the empty sequence.
C21_RoundTrip ==
    \A t \in Threads :
        /\ restored[t] # NoReading => Now(t) = restored[t]
        /\ opened[t] = <<>> => Now(t) = Default

\* thread A left its two scopes by an exception and reads the defaults again
\* while thread B is still inside two scopes
C21_Witness ==
    /\ lpc["A"] = "unwinding" /\ opened["A"] = <<>> /\ restored["A"] = Default
    /\ Len(opened["B"]) = 2

\* an inner scope left normally gives back the reading of the outer scope
C21_WitnessNested ==
    /\ lpc["A"] = "run" /\ Len(opened["A"]) = 1
    /\ restored["A"] = [indentation |-> 1, context |-> <<>>]

\* C22: whatever two threads do with their scopes, what a thread reads
\* (indentation, context tags, silenced) depends only on its own active
\* scopes: a step that leaves a thread's own scopes alone leaves its readings
\* alone, and the readings are those of its own scopes.
C22_Isolation ==
    [][\A t \in Threads :
         /\ (opened'[t] = opened[t]) =>
                Reading(THREAD_LOGGING_CONTEXT', t) = Reading(THREAD_LOGGING_CONTEXT, t)
         /\ (scopes'[t] = scopes[t]) => ContextRead(CONTEXT', t) = ContextRead(CONTEXT, t)
         /\ Len(THREAD_LOGGING_CONTEXT'[t]) = Len(opened'[t])
         /\ Len(CONTEXT'[t]) = Len(scopes'[t])]_vars

\* both threads inside scopes of their own, with different readings
C22_Witness ==
    /\ Now("A") = [indentation |-> 1, context |-> <<"a">>]
    /\ Now("B") = [indentation |-> 0, context |-> <<"b">>]
    /\ ContextRead(CONTEXT, "A") = 0 /\ ContextRead(CONTEXT, "B") = 1

\* C23: a read of the store returns, for the counter, the sum of the deltas
\* of the thread's active scopes and, for the stack, the values its active
\* scopes pushed, in entry order, outermost first; with no active scope it
\* returns 0 and the empty sequence.
C23_ReadValues ==
    \A t \in Threads :
        lpc[t] = "seen" =>
            /\ seen[t].indentation = SumSeq(ActiveDeltas(t))
            /\ seen[t].context = ActiveTags(t)
            /\ opened[t] = <<>> => seen[t] = Default

\* two nested indented scopes read as 2; two nested tags read outermost first
C23_Witness ==
    /\ lpc["A"] = "seen" /\ seen["A"] = [indentation |-> 2, context |-> <<>>]
    /\ lpc["B"] = "seen" /\ seen["B"] = [indentation |-> 0, context |-> <<"b", "a">>]

\* ------------------------------------------------- record creation, C29-C30
\* thread t holds the record its makeRecord call returned
Made(t) == lpc[t] = "made" /\ rv[t].made

\* the makeRecord call of thread t raised
Rejected(t) == lpc[t] \in {"raising", "unwinding"} /\ ~extra_arg[t].none

\* the caller's extras of thread t, and those other than the decoration override
Extras(t) == IF extra_arg[t].none THEN NoFields ELSE extra_arg[t].attrs
PlainExtras(t) == DOMAIN Extras(t) \ {"drawing"}

\* the decoration d is `depth` indent segments and then the glyph `last`
Decorated_as(d, depth, last) ==
    /\ Len(d) = depth + 1
    /\ \A i \in 1..depth : d[i].glyph = "INDENT_SEGMENT"
    /\ d[depth + 1].glyph = last

\* str is the tags joined by ';' inside square brackets, or empty for no tag
Bracketed(tags, str) ==
    IF tags = <<>> THEN str = <<>>
    ELSE /\ Len(str) = 2 * Len(tags) + 1
         /\ str[1] = "[" /\ str[Len(str)] = "]"
         /\ \A i \in 1..Len(tags) : str[2 * i] = tags[i]
         /\ \A i \in 1..(Len(tags) - 1) : str[2 * i + 1] = ";"

\* the last glyph: the caller's override, else the default segment
LastGlyph(t) ==
    IF "drawing" \in DOMAIN Extras(t) THEN Extras(t)["drawing"] ELSE "INDENT_SEGMENT"

DecorationRule(t) ==
    Decorated_as(rv[t].fields["drawing"], rv[t].fields["indentation"], LastGlyph(t))

\* C29 (as claimed): the decoration of an augmented record is the indent
\* segment repeated `depth` times, depth being the record's indentation,
\* followed by one more glyph: the caller's override when the extras pass
\* one, the default segment otherwise; the record's context string is the
\* thread's active tags joined by ';' inside square brackets, or the empty
\* string when no tag is active.
C29_DecorationAndTags ==
    \A t \in Threads :
        Made(t) =>
            /\ DecorationRule(t)
            /\ Bracketed(ActiveTags(t), rv[t].fields["context"])

\* C29 (amended): the same decoration; the record's context string is the
\* thread's active tags joined and bracketed (empty for no tag) unless the
\* caller's extras carry an attribute named 'context', which is then the
\* record's context.
C29_DecorationAndContext ==
    \A t \in Threads :
        Made(t) =>
            /\ DecorationRule(t)
            /\ IF "context" \in PlainExtras(t)
               THEN rv[t].fields["context"] = Extras(t)["context"]
               ELSE Bracketed(ActiveTags(t), rv[t].fields["context"])

\* a record made at depth 1 under one tag with the open-branch override, and
\* one made at depth 0 under two tags with the default glyph
C29_Witness ==
    /\ Made("A") /\ rv["A"].fields["indentation"] = 1
    /\ Extras("A") = ("drawing" :> "INDENT_OPEN")
    /\ rv["A"].fields["context"] = <<"[", "a", "]">>
    /\ Made("B") /\ rv["B"].fields["indentation"] = 0
    /\ extra_arg["B"].none
    /\ rv["B"].fields["context"] = <<"[", "b", ";", "a", "]">>

\* a record made at depth 2, outside any tag
C29_WitnessDeep ==
    /\ Made("A") /\ Len(rv["A"].fields["drawing"]) = 3
    /\ rv["A"].fields["context"] = <<>> /\ extra_arg["A"].none

\* an extra other than the decoration override that the record must refuse
Reserved(key) == key \in {"message", "asctime"} \/ key \in DOMAIN BaseRecord

\* C30: record creation fails, and produces no record, whenever an extra
\* other than the decoration override is named 'message' or 'asctime' or
\* names a field already set on the record; extras that collide with nothing
\* are copied onto the record unchanged.
C30_ReservedFields ==
    \A t \in Threads :
        (Made(t) \/ Rejected(t)) =>
            IF \E key \in PlainExtras(t) : Reserved(key)
            THEN Rejected(t) /\ ~rv[t].made
            ELSE /\ Made(t)
                 /\ \A key \in PlainExtras(t) : rv[t].fields[key] = Extras(t)[key]

\* one harmless extra next to a reserved one: no record; a decoration
\* override next to a harmless extra: the extra is on the record
C30_Witness ==
    /\ Rejected("A") /\ Extras("A") = ("host" :> "h1") @@ ("asctime" :> "now")
    /\ Made("B") /\ Extras("B") = ("drawing" :> "INDENT_CLOSE") @@ ("host" :> "h1")
    /\ rv["B"].fields["host"] = "h1"

C30_WitnessSetField ==
    /\ Rejected("A") /\ Extras("A") = ("name" :> "other")

\* ------------------------------------------------ the announced remainder
\* the budget checks made so far, and the "Retrying..." records logged so far
RECURSIVE Count(_, _)
Count(q, x) == IF q = <<>> THEN 0 ELSE Count(Rest(q), x) + (IF Top(q) = x THEN 1 ELSE 0)

IsAnnouncement(r) == r.msg = "Retrying..."
Announced == SelectSeq(log, IsAnnouncement)

\* C35: in retry with an integer budget N the stop condition is decremented
\* exactly once per failed attempt that reaches the budget check, the
\* remainder announced after the k-th such failure is N-k, so it is never
\* negative, and it is 0 before the final invocation.
C35_RemainAnnounced ==
    api = "retry" =>
        /\ remain(stopper) = times - Count(trace, "expired")
        /\ Len(Announced) <= times
        /\ \A k \in 1..Len(Announced) :
               Announced[k].remain = times - k /\ Announced[k].remain >= 0
        /\ Len(Announced) \in {Count(trace, "expired"), Count(trace, "expired") - 1}
        /\ (Exhausted /\ times > 0) =>
               Len(Announced) = times /\ Last(Announced).remain = 0

\* a budget of MaxTimes used up: MaxTimes announcements, the last one of 0
C35_Witness ==
    /\ Exhausted /\ times = MaxTimes /\ calls = MaxTimes + 1
    /\ Len(Announced) = MaxTimes
    /\ Announced[1].remain = MaxTimes - 1 /\ Last(Announced).remain = 0

\* C37: a field already on the record takes precedence over the flattened
\* thread context: an extra named 'indentation' or 'context' stays on the
\* record in place of the thread's value, and the decoration is built from
\* the record's indentation, not from the thread's depth.
C37_RecordFieldsWin ==
    \A t \in Threads :
        Made(t) =>
            /\ \A key \in PlainExtras(t) \cap {"indentation", "context"} :
                   rv[t].fields[key] = Extras(t)[key]
            /\ Len(rv[t].fields["drawing"]) = rv[t].fields["indentation"] + 1
            /\ "indentation" \in PlainExtras(t) =>
                   Len(rv[t].fields["drawing"]) = Extras(t)["indentation"] + 1

\* a record made at depth 2 with extra indentation 0: one glyph only
C37_Witness ==
    /\ Made("A") /\ Extras("A") = ("indentation" :> 0)
    /\ CounterRead(THREAD_LOGGING_CONTEXT, "A") = 2
    /\ rv["A"].fields["indentation"] = 0
    /\ Len(rv["A"].fields["drawing"]) = 1

\* a record made inside a tag scope with an extra named 'context'
C37_WitnessContext ==
    /\ Made("B") /\ Extras("B") = ("context" :> <<"x">>)
    /\ ActiveTags("B") # <<>>
    /\ rv["B"].fields["context"] = <<"x">>

\* ====================================================== exceptions.py
\* ------------------------------------------------------------ dicts
Range(q) == {q[i] : i \in 1..Len(q)}
Has(d, k) == k \in Range(d.keys)
DictGet(d, k, dflt) == IF Has(d, k) THEN d.at[k] ELSE dflt
DictSet(d, k, v) ==
    [keys |-> IF Has(d, k) THEN d.keys ELSE Append(d.keys, k),
     at |-> (k :> v) @@ d.at]
DictDel(d, k) ==
    [keys |-> SelectSeq(d.keys, LAMBDA x : x # k),
     at |-> [x \in DOMAIN d.at \ {k} |-> d.at[x]]]

\* d.update(e): e's items in e's order
RECURSIVE DictUpdate(_, _)
DictUpdate(d, e) ==
    IF e.keys = <<>> THEN d
    ELSE DictUpdate(DictSet(d, Head(e.keys), e.at[Head(e.keys)]), DictDel(e, Head(e.keys)))

\* a dict literal / keyword arguments, from its items in order
RECURSIVE Dict(_)
Dict(items) ==
    IF items = <<>> THEN EmptyDict
    ELSE DictSet(Dict(SubSeq(items, 1, Len(items) - 1)),
                 items[Len(items)][1], items[Len(items)][2])

\* the keys in use, in the order Python's sorted() gives strings (by code
\* point: '_' < 'a'..'z' < '~')
KeyOrder == <<"_secret", "available", "day", "host", "indentation", "tip", "wanted", "~dim">>
Rank(k) == CHOOSE i \in 1..Len(KeyOrder) : KeyOrder[i] = k

RECURSIVE InsertSorted(_, _)
InsertSorted(q, k) ==
    IF q = <<>> THEN <<k>>
    ELSE IF Rank(k) < Rank(Head(q)) THEN <<k>> \o q
    ELSE <<Head(q)>> \o InsertSorted(Tail(q), k)

RECURSIVE sorted(_)
sorted(q) == IF q = <<>> THEN <<>> ELSE InsertSorted(sorted(Tail(q)), Head(q))

\* k.startswith("_"), k.startswith("~"), k[1:]
StartsWith(k, c) == (c = "_" /\ k = "_secret") \/ (c = "~" /\ k = "~dim")
Stripped(k) == IF k = "~dim" THEN "dim" ELSE k

\* ----------------------------------------------------- str, repr, format
str(v) ==
    CASE v.type = "int" -> <<Lit(ToString(v.n))>>
      [] v.type = "str" -> v.text
      [] OTHER -> <<Lit("None")>>

repr(v) ==
    CASE v.type = "int" -> <<Lit(ToString(v.n))>>
      [] v.type = "str" -> <<Lit("'")>> \o v.text \o <<Lit("'")>>
      [] OTHER -> <<Lit("None")>>

\* text.format(**d): each replacement field gives way to str() of its value
RECURSIVE Format(_, _)
Format(text, d) ==
    IF text = <<>> THEN <<>>
    ELSE (IF Head(text).field = "" THEN <<Head(text)>> ELSE str(d.at[Head(text).field]))
             \o Format(Tail(text), d)

\* bool(v), for a value
TruthyValue(v) ==
    CASE v.type = "int" -> v.n # 0
      [] v.type = "str" -> v.text # <<>>
      [] OTHER -> FALSE

\* ------------------------------------------------------------ make_block
\* one line of rendered text: the part of the rendering it belongs to, the
\* key it shows (if any) and the text after it
Line(part, key, value) == [part |-> part, key |-> key, value |-> value, dark |-> FALSE]

\* lines 155-169, for one key
BlockLine(d, k) ==
    [part |-> "block",
     key |-> IF StartsWith(k, "~") THEN Stripped(k) ELSE k,
     value |-> IF d.at[k].type = "str" THEN d.at[k].text ELSE repr(d.at[k]),
     dark |-> StartsWith(k, "~")]

\* a block in the dict's own order
make_block_unsorted(d, skip) ==
    LET ks == SelectSeq(d.keys, LAMBDA k : ~StartsWith(k, "_") /\ k \notin skip)
    IN  [i \in 1..Len(ks) |-> BlockLine(d, ks[i])]

\* make_block(d, skip)
make_block(d, skip) ==
    LET ks == SelectSeq(sorted(d.keys), LAMBDA k : ~StartsWith(k, "_") /\ k \notin skip)
    IN  [i \in 1..Len(ks) |-> BlockLine(d, ks[i])]

\* the lines of a block, marked with the part they are rendered in
Marked(lines, part) == [i \in 1..Len(lines) |-> [lines[i] EXCEPT !.part = part]]

\* ------------------------------------------------------------ PException
\* the classes of structured exceptions in use
Instantiable == {"PException", "NotEnoughPeanuts", "Hinted"}

\* the `template` of a TException class
Template(cls) ==
    IF cls = "NotEnoughPeanuts"
    THEN <<Lit("You can't have "), Field("wanted"), Lit(" peanuts, there are only "),
           Field("available"), Lit(" left")>>
    ELSE <<>>

\* getattr(self, 'tip', None) before the params are set: the class attribute
ClassTip(cls) == IF cls = "Hinted" THEN StrV(<<Lit("try on "), Field("day")>>) ELSE NoneV

\* time.time()
Clock == 5

\* the `context`, `traceback` and `timestamp` keywords when not passed
NotGiven == -1
NoTraceback == "None"

\* traceback.format_exc() while `handled` is being handled
format_exc(handled) ==
    IF handled.cls = "None" THEN "NoneType: None" ELSE "Traceback: " \o handled.cls

\* PException.__init__(message, **params), the keywords `context`,
\* `traceback` and `timestamp` apart from the others; TException.__init__
\* passes the class template as the message
PExceptionInit(cls, message, kwargs, context, traceback, timestamp, handled, id) ==
    LET text == IF issubclass(cls, "TException") THEN Template(cls) ELSE message
        any == kwargs.keys # <<>> \/ context # EmptyDict
                   \/ traceback # NoTraceback \/ timestamp # NotGiven
        params == IF Has(kwargs, "tip") THEN kwargs ELSE DictSet(kwargs, "tip", ClassTip(cls))
    IN  [cls |-> cls,
         id |-> id,
         message |-> IF any THEN Format(text, kwargs) ELSE text,
         params |-> DictUpdate(EmptyDict, params),
         context |-> context,
         traceback |-> IF traceback = "True" THEN format_exc(handled) ELSE traceback,
         timestamp |-> IF timestamp = NotGiven THEN Clock ELSE timestamp]

\* an exception that is not a PException
Plain(cls, id) == [NoPEx EXCEPT !.cls = cls, !.id = id]

\* add_params(**params)
add_params(e, params) == [e EXCEPT !.params = DictUpdate(e.params, params)]

\* __repr__: the class name, the message and the sorted "key=repr" items
Repr(e) ==
    LET ks == sorted(e.params.keys)
    IN  <<Line("repr", e.cls, e.message)>>
            \o [i \in 1..Len(ks) |-> Line("kw", ks[i], repr(e.params.at[ks[i]]))]

\* the arguments of render
Flags == [params : BOOLEAN, context : BOOLEAN, traceback : BOOLEAN, timestamp : BOOLEAN]
AllFlags == [params |-> TRUE, context |-> TRUE, traceback |-> TRUE, timestamp |-> TRUE]

\* render(params, context, traceback, timestamp): the text as lines, and the
\* exception as the call leaves it (lines 71 and 79 pop the tip and put the
\* formatted tip back when there is one)
render(e, f) ==
    LET shows == f.params /\ e.params.keys # <<>>
        tip == IF shows THEN DictGet(e.params, "tip", NoneV) ELSE NoneV
        rest == IF shows THEN DictDel(e.params, "tip") ELSE e.params
        formatted == Format(tip.text, rest)
    IN  [text |->
             (IF e.message # <<>> THEN <<Line("message", "", e.message)>> ELSE <<>>)
             \o (IF shows THEN Marked(make_block(rest, {}), "params") ELSE <<>>)
             \o (IF TruthyValue(tip) THEN <<Line("tip", "tip", formatted)>> ELSE <<>>)
             \o (IF f.timestamp /\ e.timestamp # 0
                 THEN <<Line("timestamp", "timestamp", <<Lit(ToString(e.timestamp))>>)>>
                 ELSE <<>>)
             \o (IF f.context /\ e.context # EmptyDict
                 THEN <<Line("context", "", <<Lit("Context:")>>)>>
                          \o Marked(make_block(e.context, {"indentation"}), "context")
                 ELSE <<>>)
             \o (IF f.traceback /\ e.traceback # NoTraceback
                 THEN <<Line("trace", "", <<Lit(e.traceback)>>)>>
                 ELSE <<>>),
         obj |-> [e EXCEPT !.params =
                     IF TruthyValue(tip) THEN DictSet(rest, "tip", StrV(formatted)) ELSE rest]]

\* ------------------------------------------------- inputs of the exceptions
MaxAdds == 1

Thursday == StrV(<<Lit("Thursday")>>)

\* keyword arguments, in the order the caller wrote them
KwargsChoices ==
    { EmptyDict,
      Dict(<<<<"wanted", IntV(10)>>, <<"available", IntV(8)>>, <<"day", Thursday>>>>),
      Dict(<<<<"wanted", IntV(1)>>, <<"available", IntV(0)>>>>),
      Dict(<<<<"~dim", StrV(<<Lit("x")>>)>>, <<"wanted", IntV(10)>>, <<"_secret", IntV(1)>>,
             <<"day", Thursday>>, <<"available", IntV(8)>>>>),
      Dict(<<<<"day", Thursday>>, <<"tip", StrV(<<Lit("come back on "), Field("day")>>)>>,
             <<"wanted", IntV(10)>>, <<"available", IntV(8)>>>>) }

ContextChoices ==
    { EmptyDict,
      Dict(<<<<"indentation", IntV(2)>>, <<"host", StrV(<<Lit("h1")>>)>>,
             <<"_secret", IntV(1)>>, <<"day", Thursday>>>>) }

MessageChoices == {<<>>, <<Lit("oops")>>}

AddChoices ==
    { Dict(<<<<"host", StrV(<<Lit("h1")>>)>>>>),
      Dict(<<<<"available", IntV(7)>>, <<"_secret", IntV(2)>>>>) }

\* the replacement fields of a text
FieldsOf(text) == {text[i].field : i \in 1..Len(text)} \ {""}

\* the constructor call formats without a KeyError, and so will the tip
Fits(cls, message, kwargs, context, traceback, timestamp) ==
    LET text == IF issubclass(cls, "TException") THEN Template(cls) ELSE message
        any == kwargs.keys # <<>> \/ context # EmptyDict
                   \/ traceback # NoTraceback \/ timestamp # NotGiven
    IN  /\ any => FieldsOf(text) \subseteq Range(kwargs.keys)
        /\ FieldsOf(DictGet(kwargs, "tip", ClassTip(cls)).text) \subseteq Range(kwargs.keys)

\* ------------------------------------------------ actions on an exception
nonExceptionVars == <<retryVars, backoffVars, decoVars, consoleVars, boolVars, logVars, indVars, initVars, pbVars, hbVars>>

\* raise cls(message, **kwargs) outside any handler
Construct ==
    /\ pex = NoPEx /\ oe.state = "none"
    /\ \E cls \in Instantiable, message \in MessageChoices, kwargs \in KwargsChoices,
          context \in ContextChoices, traceback \in {NoTraceback, "True"},
          timestamp \in {NotGiven, 0} :
        /\ issubclass(cls, "TException") => message = <<>>
        /\ Fits(cls, message, kwargs, context, traceback, timestamp)
        /\ pex' = PExceptionInit(cls, message, kwargs, context, traceback, timestamp, NoPEx, 1)
    /\ UNCHANGED <<shown, adds, oe>>
    /\ UNCHANGED nonExceptionVars

\* exc.add_params(**params)
AddParams ==
    /\ pex # NoPEx /\ issubclass(pex.cls, "PException")
    /\ adds < MaxAdds
    /\ \E params \in AddChoices : pex' = add_params(pex, params)
    /\ adds' = adds + 1
    /\ UNCHANGED <<shown, oe>>
    /\ UNCHANGED nonExceptionVars

\* exc.render(...)
RenderCall ==
    /\ pex # NoPEx /\ issubclass(pex.cls, "PException")
    /\ \E f \in Flags :
        /\ shown' = [op |-> "render", lines |-> render(pex, f).text]
        /\ pex' = render(pex, f).obj
    /\ UNCHANGED <<adds, oe>>
    /\ UNCHANGED nonExceptionVars

\* str(exc): render(traceback=False, color=False)
StrCall ==
    /\ pex # NoPEx /\ issubclass(pex.cls, "PException")
    /\ shown' = [op |-> "str", lines |-> render(pex, [AllFlags EXCEPT !.traceback = FALSE]).text]
    /\ pex' = render(pex, [AllFlags EXCEPT !.traceback = FALSE]).obj
    /\ UNCHANGED <<adds, oe>>
    /\ UNCHANGED nonExceptionVars

\* repr(exc)
ReprCall ==
    /\ pex # NoPEx /\ issubclass(pex.cls, "PException")
    /\ shown' = [op |-> "repr", lines |-> Repr(pex)]
    /\ UNCHANGED <<pex, adds, oe>>
    /\ UNCHANGED nonExceptionVars

\* ---------------------------------------------------------- on_exception
\* the classes on_exception is called on, the `acceptable` it is given and
\* the fixed keywords
ScopeClasses == {"PException", "NotEnoughPeanuts"}
ScopeAcceptable == {{"Exception"}, {"ValueError"}, {"ValueError", "OSError", "PException"}}
ScopeKwargs ==
    { EmptyDict,
      Dict(<<<<"wanted", IntV(1)>>, <<"available", IntV(0)>>>>) }

\* what the code inside the scope raises
BodyExceptions ==
    {Plain(c, 1) : c \in {"ValueError", "UnicodeError", "OSError", "KeyboardInterrupt"}}
        \cup {PExceptionInit(c, <<Lit("oops")>>,
                             Dict(<<<<"wanted", IntV(10)>>, <<"available", IntV(8)>>, <<"day", Thursday>>>>),
                             EmptyDict, NoTraceback, 0, NoPEx, 1) : c \in Instantiable}

\* handlers in which `acceptable` is tried first
on_exception_acceptable_first(cls, acc, kwargs, e) ==
    IF \E a \in acc : issubclass(e.cls, a)
    THEN PExceptionInit(cls, <<>>, kwargs, EmptyDict, "True", NotGiven, e, 2)
    ELSE e

\* lines 105-113: the exception that leaves the scope when the body raised e
on_exception(cls, acc, kwargs, e) ==
    IF issubclass(e.cls, cls) THEN e
    ELSE IF \E a \in acc : issubclass(e.cls, a)
    THEN PExceptionInit(cls, <<>>, kwargs, EmptyDict, "True", NotGiven, e, 2)
    ELSE e

\* with cls.on_exception(acceptable, **kwargs):
OnExceptionEnter ==
    /\ pex = NoPEx /\ oe.state = "none"
    /\ \E cls \in ScopeClasses, acc \in ScopeAcceptable, kwargs \in ScopeKwargs :
        /\ Fits(cls, <<>>, kwargs, EmptyDict, "True", NotGiven)
        /\ oe' = [NoScope EXCEPT !.state = "entered", !.cls = cls,
                                 !.acceptable = acc, !.kw = kwargs]
    /\ UNCHANGED <<pex, shown, adds>>
    /\ UNCHANGED nonExceptionVars

\* the body ends without raising
OnExceptionBodyReturns ==
    /\ oe.state = "entered"
    /\ oe' = [oe EXCEPT !.state = "completed"]
    /\ UNCHANGED <<pex, shown, adds>>
    /\ UNCHANGED nonExceptionVars

\* the body raises
OnExceptionBodyRaises ==
    /\ oe.state = "entered"
    /\ \E e \in BodyExceptions : oe' = [oe EXCEPT !.state = "raising", !.raised = e]
    /\ UNCHANGED <<pex, shown, adds>>
    /\ UNCHANGED nonExceptionVars

\* the except clauses; what leaves the scope is the exception at hand
OnExceptionExcept ==
    /\ oe.state = "raising"
    /\ oe' = [oe EXCEPT !.state = "raised",
                        !.out = on_exception(oe.cls, oe.acceptable, oe.kw, oe.raised)]
    /\ pex' = on_exception(oe.cls, oe.acceptable, oe.kw, oe.raised)
    /\ UNCHANGED <<shown, adds>>
    /\ UNCHANGED nonExceptionVars

ExceptionNext ==
    \/ Construct
    \/ AddParams
    \/ RenderCall
    \/ StrCall
    \/ ReprCall
    \/ OnExceptionEnter
    \/ OnExceptionBodyReturns
    \/ OnExceptionBodyRaises
    \/ OnExceptionExcept

SpecException == Init /\ [][ExceptionNext]_vars

\* ------------------------------------------------ claims on exceptions.py
\* the parts of a rendering, in the claimed order
PartOrder == <<"message", "params", "tip", "timestamp", "context", "trace">>
PartRank(p) == CHOOSE i \in 1..Len(PartOrder) : PartOrder[i] = p

InPartOrder(lines) ==
    \A i, j \in 1..Len(lines) : i < j => PartRank(lines[i].part) <= PartRank(lines[j].part)

\* the 'key = value' lines of one part, and the key a line was made from
KeyLines(lines, part) == SelectSeq(lines, LAMBDA l : l.part = part /\ l.key # "")
Original(line) ==
    IF line.dark
    THEN CHOOSE k \in Range(KeyOrder) : StartsWith(k, "~") /\ Stripped(k) = line.key
    ELSE line.key

Ascending(block) ==
    \A i, j \in 1..Len(block) : i < j => Rank(Original(block[i])) < Rank(Original(block[j]))

\* the text a value is shown as: a str as it is, an int in digits
ShownAs(v) == IF v.type = "str" THEN v.text ELSE <<Lit(ToString(v.n))>>

\* the block has one line for each key of d that neither starts with an
\* underscore nor is skipped, and the line shows the key's value
ShowsAll(block, d, skip) ==
    /\ {Original(block[i]) : i \in 1..Len(block)}
           = {k \in Range(d.keys) : ~StartsWith(k, "_") /\ k \notin skip}
    /\ \A i \in 1..Len(block) : block[i].value = ShownAs(d.at[Original(block[i])])

\* the worked example: NotEnoughPeanuts(wanted=10, available=8, day='Thursday')
IsPeanuts(e) ==
    /\ e.cls = "NotEnoughPeanuts"
    /\ Range(e.params.keys) = {"wanted", "available", "day", "tip"}
    /\ e.params.at["wanted"] = IntV(10)
    /\ e.params.at["available"] = IntV(8)
    /\ e.params.at["day"] = Thursday
    /\ e.message # Template(e.cls)

PeanutsText ==
    << Line("message", "", <<Lit("You can't have "), Lit("10"), Lit(" peanuts, there are only "),
                             Lit("8"), Lit(" left")>>),
       Line("params", "available", <<Lit("8")>>),
       Line("params", "day", <<Lit("Thursday")>>),
       Line("params", "wanted", <<Lit("10")>> ) >>

Rendered(lines, e) ==
    LET P == KeyLines(lines, "params")
        C == KeyLines(lines, "context")
    IN  /\ InPartOrder(lines)
        /\ e.message # <<>> => lines # <<>> /\ lines[1] = Line("message", "", e.message)
        /\ P # <<>> => Ascending(P) /\ ShowsAll(P, e.params, {"tip"})
        /\ C # <<>> => Ascending(C) /\ ShowsAll(C, e.context, {"indentation"})

\* C31: rendering emits the message lines, then one 'key = value' line per
\* param in ascending key order (keys starting with an underscore skipped),
\* then the tip, the timestamp, the context block (sorted, 'indentation'
\* skipped) and the trace; the NotEnoughPeanuts example renders as the
\* formatted message, then available = 8, day = Thursday, wanted = 10.
C31_RenderOrder ==
    [][(shown' # shown /\ shown'.op \in {"render", "str"}) =>
          /\ Rendered(shown'.lines, pex)
          /\ shown'.op = "str" =>
                 /\ ShowsAll(KeyLines(shown'.lines, "params"), pex.params, {"tip"})
                 /\ ShowsAll(KeyLines(shown'.lines, "context"), pex.context, {"indentation"})
                 /\ \A i \in 1..Len(shown'.lines) : shown'.lines[i].part # "trace"
                 /\ IsPeanuts(pex) => SubSeq(shown'.lines, 1, 4) = PeanutsText]_vars

\* the worked example has been rendered by str()
C31_Witness ==
    /\ shown.op = "str" /\ IsPeanuts(pex) /\ adds = 0
    /\ Len(shown.lines) >= 4 /\ SubSeq(shown.lines, 1, 4) = PeanutsText

\* a rendering with all six parts, a dark key and a hidden key among them
C31_WitnessAllParts ==
    /\ shown.op = "render"
    /\ {shown.lines[i].part : i \in 1..Len(shown.lines)} = Range(PartOrder)
    /\ Has(pex.params, "_secret") /\ Has(pex.params, "~dim")
    /\ Len(KeyLines(shown.lines, "context")) = 2

\* C32 (as claimed): the message never changes after construction, and a
\* step that is not add_params (render, str, repr) leaves the params' keys
\* and values as they were, so that repr and render give the same result
\* before and after it.
C32_RenderLeavesParams ==
    [][(pex # NoPEx /\ oe' = oe) =>
          /\ pex'.message = pex.message
          /\ adds' = adds =>
                 /\ pex'.params = pex.params
                 /\ Repr(pex') = Repr(pex)
                 /\ render(pex', AllFlags).text = render(pex, AllFlags).text]_vars

\* `classes` matches the exception e
Matches(e, classes) == \E a \in classes : issubclass(e.cls, a)

\* a new instance of the scope's class, made from the scope's keywords with
\* the trace of e
Converted(out, e) ==
    /\ out.id = 2 /\ out # e
    /\ out.cls = oe.cls
    /\ \A k \in Range(oe.kw.keys) : Has(out.params, k) /\ out.params.at[k] = oe.kw.at[k]
    /\ Range(out.params.keys) = Range(oe.kw.keys) \cup {"tip"}
    /\ out.traceback = "Traceback: " \o e.cls

\* C33: in K.on_exception(acceptable=A, **kw) an instance of K propagates
\* unchanged (also when it matches A), an exception matching A that is not
\* an instance of K is replaced by a new K made from kw with a captured
\* trace, an exception matching neither propagates unchanged, and a body
\* that does not raise completes normally.
C33_OnExceptionTable ==
    /\ oe.state = "raised" =>
           IF issubclass(oe.raised.cls, oe.cls) THEN oe.out = oe.raised
           ELSE IF Matches(oe.raised, oe.acceptable) THEN Converted(oe.out, oe.raised)
           ELSE oe.out = oe.raised
    /\ oe.state = "completed" => oe.out = NoPEx /\ oe.raised = NoPEx /\ pex = NoPEx

\* a NotEnoughPeanuts that PException.on_exception would accept passes through
C33_Witness ==
    /\ oe.state = "raised" /\ oe.cls = "PException"
    /\ oe.raised.cls = "NotEnoughPeanuts" /\ Matches(oe.raised, oe.acceptable)
    /\ oe.out = oe.raised

\* a UnicodeError accepted as a ValueError leaves as a NotEnoughPeanuts
C33_WitnessConverted ==
    /\ oe.state = "raised" /\ oe.cls = "NotEnoughPeanuts" /\ oe.acceptable = {"ValueError"}
    /\ oe.raised.cls = "UnicodeError"
    /\ oe.out.cls = "NotEnoughPeanuts" /\ oe.out.traceback = "Traceback: UnicodeError"

\* a KeyboardInterrupt matches neither; and a body that does not raise
C33_WitnessNeither ==
    /\ oe.state = "raised" /\ oe.raised.cls = "KeyboardInterrupt" /\ oe.out = oe.raised

C33_WitnessCompleted == oe.state = "completed"

\* ==================================================== logger.indented
\* self._log(level, msg, extra=dict(drawing=glyph)) on thread t: the record
\* patched_makeRecord makes, by its title, indentation and decoration
Logged(t, title, glyph) ==
    LET fields == Augmented(THREAD_LOGGING_CONTEXT, t,
                            [none |-> FALSE, attrs |-> "drawing" :> glyph])
    IN  [title |-> title, indentation |-> fields["indentation"], drawing |-> fields["drawing"]]

\* footer_log(color, title, drawing): lines 363-367
footer_log(t, footer, title, glyph) == Logged(t, IF footer THEN title ELSE "", glyph)

\* what the body of an indented scope raises
IndentedRaisable == {"KeyboardInterrupt", "AbortedException", "ValueError", "GeneratorExit"}

\* handlers without the GeneratorExit clause
indented_except_plain(c) ==
    IF c = "None" THEN [title |-> "DONE", drawing |-> "INDENT_CLOSE", reraise |-> FALSE]
    ELSE IF issubclass(c, "KeyboardInterrupt") \/ issubclass(c, "AbortedException")
    THEN [title |-> "ABORTED", drawing |-> "INDENT_EXCEPTION", reraise |-> TRUE]
    ELSE [title |-> "FAILED", drawing |-> "INDENT_EXCEPTION", reraise |-> TRUE]

\* lines 369-379: the footer and whether the handler re-raises, when the
\* body raised c ("None": it did not raise)
indented_except(c) ==
    IF c = "None" THEN [title |-> "DONE", drawing |-> "INDENT_CLOSE", reraise |-> FALSE]
    ELSE IF issubclass(c, "KeyboardInterrupt") \/ issubclass(c, "AbortedException")
    THEN [title |-> "ABORTED", drawing |-> "INDENT_EXCEPTION", reraise |-> TRUE]
    ELSE IF issubclass(c, "GeneratorExit")
    THEN [title |-> "DONE", drawing |-> "INDENT_CLOSE", reraise |-> FALSE]
    ELSE [title |-> "FAILED", drawing |-> "INDENT_EXCEPTION", reraise |-> TRUE]

nonIndentedVars == <<retryVars, backoffVars, decoVars, consoleVars, boolVars, excVars, initVars, pbVars, hbVars>>

\* with logger.indented(header, footer=...): lines 351-355, the header and
\* then the scope
IndentedOpen(t) ==
    /\ ierr[t] = "None" /\ lpc[t] = "run"
    /\ Len(frames[t]) < MaxScopes
    /\ \E footer \in BOOLEAN :
        frames' = [frames EXCEPT ![t] =
                      Append(@, [d |-> CounterRead(THREAD_LOGGING_CONTEXT, t),
                                 footer |-> footer,
                                 header |-> Logged(t, "header", "INDENT_OPEN")])]
    /\ THREAD_LOGGING_CONTEXT' = ContextEnter(THREAD_LOGGING_CONTEXT, t, Update(1, "None"))
    /\ Entering(t, Update(1, "None"))
    /\ closed' = [closed EXCEPT ![t] = NoClosed]
    /\ UNCHANGED <<lpc, seen, rv, extra_arg, ierr>>
    /\ UNCHANGED nonIndentedVars

\* the body of the innermost indented scope raises
IndentedBodyRaises(t) ==
    /\ ierr[t] = "None" /\ frames[t] # <<>>
    /\ \E c \in IndentedRaisable : ierr' = [ierr EXCEPT ![t] = c]
    /\ UNCHANGED <<frames, closed, logVars>>
    /\ UNCHANGED nonIndentedVars

\* the innermost indented scope is left, by the end of its body or by the
\* exception in flight: the footer is logged inside the ExitStack, which
\* then closes the scope.  An exception the handler does not re-raise is
\* left to easypy.contexts.contextmanager, which may let it through or not.
IndentedClose(t) ==
    /\ frames[t] # <<>>
    /\ LET top == Top(frames[t])
           how == indented_except(ierr[t])
       IN  /\ closed' = [closed EXCEPT ![t] =
                  [made |-> TRUE, d |-> top.d, header |-> top.header,
                   footers |-> <<footer_log(t, top.footer, how.title, how.drawing)>>,
                   cause |-> ierr[t], reraised |-> how.reraise,
                   after |-> CounterRead(ContextExit(THREAD_LOGGING_CONTEXT, t), t)]]
           /\ \E passes \in BOOLEAN :
                  ierr' = [ierr EXCEPT ![t] = IF how.reraise \/ (passes /\ @ # "None")
                                              THEN @ ELSE "None"]
    /\ frames' = [frames EXCEPT ![t] = Rest(@)]
    /\ THREAD_LOGGING_CONTEXT' = ContextExit(THREAD_LOGGING_CONTEXT, t)
    /\ Leaving(t)
    /\ UNCHANGED <<lpc, seen, rv, extra_arg>>
    /\ UNCHANGED nonIndentedVars

\* the exception has left every indented scope and is handled further out
IndentedCaught(t) ==
    /\ frames[t] = <<>> /\ ierr[t] # "None"
    /\ ierr' = [ierr EXCEPT ![t] = "None"]
    /\ UNCHANGED <<frames, closed, logVars>>
    /\ UNCHANGED nonIndentedVars

IndentedNext ==
    \E t \in Threads :
        \/ IndentedOpen(t)
        \/ IndentedBodyRaises(t)
        \/ IndentedClose(t)
        \/ IndentedCaught(t)

SpecIndented == Init /\ [][IndentedNext]_vars

\* -------------------------------------------------- claims on indented
\* the scope thread t left last ended by exception class c
Glyph(rec) == rec.drawing[Len(rec.drawing)].glyph

\* header at depth d with the open glyph, one footer at depth d + 1 with
\* the given title and glyph, depth d afterwards
Bracket(c, title, glyph) ==
    /\ c.header.indentation = c.d /\ Glyph(c.header) = "INDENT_OPEN"
    /\ Len(c.header.drawing) = c.d + 1
    /\ Len(c.footers) = 1
    /\ c.footers[1].indentation = c.d + 1
    /\ c.footers[1].title = title /\ Glyph(c.footers[1]) = glyph
    /\ c.after = c.d

\* every open indented scope has its body one level deeper than its header
BodyDeeper ==
    \A t \in Threads : \A i \in 1..Len(frames[t]) :
        /\ frames[t][i].header.indentation = frames[t][i].d
        /\ Glyph(frames[t][i].header) = "INDENT_OPEN"
        /\ frames[t][i].d = i - 1
        /\ CounterRead(THREAD_LOGGING_CONTEXT, t) = Len(frames[t])

\* C34 (as claimed): an indented scope entered at depth d logs its header at
\* depth d with the open glyph, runs its body at depth d+1 and logs exactly
\* one footer before the depth is restored: DONE with the close glyph after
\* a normal end, ABORTED with the exception glyph for KeyboardInterrupt or an
\* AbortedException, FAILED with the exception glyph for any other
\* exception, which is re-raised in both failure cases; after the exit the
\* thread's depth is d again.
C34_IndentedBrackets ==
    /\ BodyDeeper
    /\ \A t \in Threads :
           closed[t].made =>
               IF closed[t].cause = "None"
               THEN Bracket(closed[t], "DONE", "INDENT_CLOSE")
               ELSE IF closed[t].cause \in {"KeyboardInterrupt", "AbortedException"}
               THEN Bracket(closed[t], "ABORTED", "INDENT_EXCEPTION") /\ closed[t].reraised
               ELSE Bracket(closed[t], "FAILED", "INDENT_EXCEPTION") /\ closed[t].reraised

\* the title of a footer: the one given, unless the scope was entered with
\* footer=False, whose footer has an empty message
Titled(c, title) == c.footers[1].title \in {title, ""}

\* C34 (amended): as claimed, except that a body raising GeneratorExit gets
\* the DONE footer with the close glyph and is not re-raised by the scope,
\* and that a scope entered with footer=False logs its one footer record
\* with the glyph but an empty message.
C34_IndentedFooters ==
    /\ BodyDeeper
    /\ \A t \in Threads :
           closed[t].made =>
               LET c == closed[t]
                   any == c.footers[1].title
               IN  IF c.cause \in {"None", "GeneratorExit"}
                   THEN Bracket(c, any, "INDENT_CLOSE") /\ Titled(c, "DONE") /\ ~c.reraised
                   ELSE IF c.cause \in {"KeyboardInterrupt", "AbortedException"}
                   THEN Bracket(c, any, "INDENT_EXCEPTION") /\ Titled(c, "ABORTED") /\ c.reraised
                   ELSE Bracket(c, any, "INDENT_EXCEPTION") /\ Titled(c, "FAILED") /\ c.reraised

\* a scope entered at depth 1 was left by GeneratorExit with a DONE footer
C34_Witness ==
    /\ closed["A"].made /\ closed["A"].cause = "GeneratorExit" /\ closed["A"].d = 1
    /\ closed["A"].footers[1].title = "DONE" /\ closed["A"].footers[1].indentation = 2
    /\ closed["A"].after = 1

\* one left by a ValueError, still propagating, and one ended normally
C34_WitnessFailed ==
    /\ closed["A"].made /\ closed["A"].cause = "ValueError" /\ ierr["A"] = "ValueError"
    /\ closed["A"].footers[1].title = "FAILED"
    /\ closed["B"].made /\ closed["B"].cause = "None" /\ closed["B"].footers[1].title = "DONE"

\* one entered with footer=False and aborted
C34_WitnessNoFooter ==
    /\ closed["B"].made /\ closed["B"].cause = "AbortedException"
    /\ closed["B"].footers[1].title = "" /\ Glyph(closed["B"].footers[1]) = "INDENT_EXCEPTION"

\* ========================================================= initialize
MaxWarnings == 2
PaletteSize == 3

\* the indent colours of line 641 (the first PaletteSize of them)
IndentColors == SubSeq(<<"DARK_GREEN", "DARK_BLUE", "DARK_MAGENTA", "DARK_CYAN", "DARK_YELLOW">>,
                       1, PaletteSize)

\* random.shuffle: any order of the colours
Shuffles ==
    {q \in [1..PaletteSize -> Range(IndentColors)] : Range(q) = Range(IndentColors)}

\* if_auto(value, default)
if_auto(value, dflt) == IF value = "AUTO" THEN dflt ELSE value
Bool(b) == IF b THEN "True" ELSE "False"

\* the thread that calls initialize
MainThread == "A"

\* lines 628-667 and the store after line 659
Settings(g, tty, graphical, coloring, shuffled) ==
    [initialized |-> TRUE,
     IS_A_TTY |-> Bool(tty),
     GRAPHICAL |-> if_auto(graphical, Bool(tty)),
     graphics |-> IF if_auto(graphical, Bool(tty)) = "True" THEN "Graphical" ELSE "ASCII",
     COLORING |-> if_auto(coloring, Bool(tty)),
     INDENT_COLORS |-> IF if_auto(coloring, Bool(tty)) = "True" THEN shuffled ELSE <<"plain">>,
     bases |-> Append(g.bases, "ContextLoggerMixin"),
     makeRecord |-> "patched_makeRecord",
     _makeRecord |-> g.makeRecord]

nonSettingsVars == <<retryVars, backoffVars, decoVars, consoleVars, boolVars, excVars, indVars, pbVars, hbVars>>

\* an initialize without the guard of line 624
initialize_again ==
    /\ warned < MaxWarnings
    /\ \E tty \in BOOLEAN, graphical \in {"AUTO", "True", "False"},
          coloring \in {"AUTO", "True", "False"}, indentation \in 0..MaxDepth,
          context \in {"None"} \cup Tags, shuffled \in Shuffles :
        /\ G' = Settings(G, tty, graphical, coloring, shuffled)
        /\ THREAD_LOGGING_CONTEXT' =
               ContextEnter(THREAD_LOGGING_CONTEXT, MainThread, Update(indentation, context))
        /\ warned' = warned + (IF G.initialized THEN 1 ELSE 0)
    /\ UNCHANGED <<lpc, opened, restored, seen, rv, extra_arg>>
    /\ UNCHANGED nonSettingsVars

\* initialize(graphical, coloring, indentation, context): lines 614-669
initialize ==
    /\ G.initialized => warned < MaxWarnings
    /\ \E tty \in BOOLEAN, graphical \in {"AUTO", "True", "False"},
          coloring \in {"AUTO", "True", "False"}, indentation \in 0..MaxDepth,
          context \in {"None"} \cup Tags, shuffled \in Shuffles :
        IF G.initialized
        THEN /\ warned' = warned + 1
             /\ UNCHANGED <<G, THREAD_LOGGING_CONTEXT>>
        ELSE /\ G' = Settings(G, tty, graphical, coloring, shuffled)
             /\ THREAD_LOGGING_CONTEXT' =
                    ContextEnter(THREAD_LOGGING_CONTEXT, MainThread, Update(indentation, context))
             /\ warned' = warned
    /\ UNCHANGED <<lpc, opened, restored, seen, rv, extra_arg>>
    /\ UNCHANGED nonSettingsVars

SpecInitialize == Init /\ [][initialize]_vars

\* C36: initialize takes effect at most once per process: called after a
\* successful initialization it only logs a warning and returns, leaving the
\* graphics and colour settings, the indent palette, the base context on the
\* thread context store and the patching of the logger class as they were.
C36_InitializeOnce ==
    [][G.initialized =>
          /\ G' = G
          /\ THREAD_LOGGING_CONTEXT' = THREAD_LOGGING_CONTEXT
          /\ warned' = warned + 1]_vars

\* initialized with a base indentation of MaxDepth and a tag, then called
\* MaxWarnings more times: the base context is there once, the bases too
C36_Witness ==
    /\ G.initialized /\ warned = MaxWarnings
    /\ THREAD_LOGGING_CONTEXT[MainThread] = <<Update(MaxDepth, "a")>>
    /\ G.bases = <<"ContextLoggerMixin">>
    /\ G._makeRecord = "Logger.makeRecord"
    /\ G.COLORING = "True" /\ Len(G.INDENT_COLORS) = PaletteSize

\* ======================================================== progress bar
\* ProgressBar.__call__ up to its yield, in graphical mode: lines 276-284,
\* all of it under self._lock
ProgressBarEnter(pb) ==
    IF pb.depth + 1 = 1
    THEN [depth |-> pb.depth + 1, thread |-> "ProgressBar", stop |-> FALSE]
    ELSE [pb EXCEPT !.depth = @ + 1]

\* ProgressBar.__call__ after its yield: lines 288-295, under self._lock;
\* the join returns once the loop has seen _stop
ProgressBarExit(pb) ==
    IF pb.depth - 1 <= 0
    THEN [depth |-> pb.depth - 1, thread |-> "None", stop |-> TRUE]
    ELSE [pb EXCEPT !.depth = @ - 1]

nonProgressVars == <<retryVars, backoffVars, decoVars, consoleVars, boolVars, logVars,
                     excVars, indVars, initVars, hbVars>>

\* with logger.progress_bar(): lines 408-415.  Outside graphical mode the
\* scope is PROGRESS_BAR() itself, which yields at once (lines 272-274); in
\* graphical mode the thread reads the class's _progressing flag.
ProgressBarCheck(t) ==
    /\ ppc[t] = "run"
    /\ Len(pscopes[t]) < MaxScopes
    /\ IF G.GRAPHICAL # "True"
       THEN /\ pscopes' = [pscopes EXCEPT ![t] = Append(@, "plain")]
            /\ ppc' = ppc
       ELSE IF progressing
       THEN /\ pscopes' = [pscopes EXCEPT ![t] = Append(@, "rider")]
            /\ ppc' = ppc
       ELSE /\ ppc' = [ppc EXCEPT ![t] = "entering"]
            /\ pscopes' = pscopes
    /\ UNCHANGED <<PROGRESS_BAR, progressing>>
    /\ UNCHANGED <<G, warned>>
    /\ UNCHANGED nonProgressVars

\* lines 416-421 for a thread that saw the flag clear: it enters
\* PROGRESS_BAR() and sets the flag
ProgressBarOwn(t) ==
    /\ ppc[t] = "entering"
    /\ PROGRESS_BAR' = ProgressBarEnter(PROGRESS_BAR)
    /\ progressing' = TRUE
    /\ pscopes' = [pscopes EXCEPT ![t] = Append(@, "owner")]
    /\ ppc' = [ppc EXCEPT ![t] = "run"]
    /\ UNCHANGED <<G, warned>>
    /\ UNCHANGED nonProgressVars

\* the innermost progress_bar scope of t ends: the ExitStack runs the
\* callbacks of a scope that entered PROGRESS_BAR(), and nothing otherwise
ProgressBarLeave(t) ==
    /\ ppc[t] = "run"
    /\ pscopes[t] # <<>>
    /\ IF Top(pscopes[t]) = "owner"
       THEN /\ progressing' = FALSE
            /\ PROGRESS_BAR' = ProgressBarExit(PROGRESS_BAR)
       ELSE UNCHANGED <<PROGRESS_BAR, progressing>>
    /\ pscopes' = [pscopes EXCEPT ![t] = Rest(@)]
    /\ UNCHANGED <<ppc, G, warned>>
    /\ UNCHANGED nonProgressVars

\* initialize() as a program that shows the bar calls it, once and with the
\* default base context; whether the process is graphical is its outcome
ProgressInitialize ==
    /\ ~G.initialized
    /\ initialize
    /\ THREAD_LOGGING_CONTEXT'[MainThread] = <<Update(0, "None")>>
    /\ G'.INDENT_COLORS \in {IndentColors, <<"plain">>}

ProgressNext ==
    \/ ProgressInitialize
    \/ \E t \in Threads :
        \/ ProgressBarCheck(t)
        \/ ProgressBarOwn(t)
        \/ ProgressBarLeave(t)

SpecProgress == Init /\ [][ProgressNext]_vars

\* a progress_bar scope entered in graphical mode is open on thread t
Progressing(t) == \E i \in 1..Len(pscopes[t]) : pscopes[t][i] # "plain"

\* C38 (as claimed): while at least one logger.progress_bar() scope is open
\* on any thread the shared bar keeps running, so that of overlapping scopes
\* of different threads only the exit of the last one stops the animation
\* thread.  (Scopes entered outside graphical mode, which start no bar, are
\* not counted.)
C38_BarRunsWhileScoped ==
    (\E t \in Threads : Progressing(t)) => PROGRESS_BAR.thread # "None"

\* ==================================================== HeartbeatHandler
MaxTime == 4
MinIntervals == {0, 1, 2}

\* the latest two of the completed beats
Latest(q) == IF Len(q) <= 2 THEN q ELSE SubSeq(q, Len(q) - 1, Len(q))

nonHeartbeatVars == <<retryVars, backoffVars, decoVars, consoleVars, boolVars, logVars,
                      excVars, indVars, initVars, pbVars>>

\* HeartbeatHandler(beat_func, min_interval): lines 511-520
HeartbeatHandler ==
    /\ ~hb.made
    /\ \E min_interval \in MinIntervals :
        hb' = [made |-> TRUE, min_interval |-> min_interval, last_beat |-> 0, emitting |-> FALSE]
    /\ UNCHANGED <<emits, beats, last_emit>>
    /\ UNCHANGED nonHeartbeatVars

\* an emit without the guard of lines 523-525
emit_reentrant ==
    /\ hb.made
    /\ Len(emits) < MaxDepth
    /\ \E created \in 0..MaxTime :
        LET due == (created - hb.last_beat) > hb.min_interval
        IN  /\ last_emit' = [created |-> created, last_beat |-> hb.last_beat,
                             busy |-> hb.emitting, beat |-> due]
            /\ IF due
               THEN /\ hb' = [hb EXCEPT !.emitting = TRUE]
                    /\ emits' = Append(emits, created)
               ELSE /\ hb' = [hb EXCEPT !.emitting = FALSE]
                    /\ emits' = emits
    /\ UNCHANGED beats
    /\ UNCHANGED nonHeartbeatVars

\* emit(record), up to the call of beat_func (lines 522-533) or, when no
\* beat is due, to its end.  It is called under the handler's lock, so
\* outside any emit, or from inside beat_func by a record logged there.
emit ==
    /\ hb.made
    /\ Len(emits) < MaxDepth
    /\ \E created \in 0..MaxTime :
        LET due == (created - hb.last_beat) > hb.min_interval
        IN  IF hb.emitting
            THEN /\ last_emit' = [created |-> created, last_beat |-> hb.last_beat,
                                  busy |-> TRUE, beat |-> FALSE]
                 /\ UNCHANGED <<hb, emits>>
            ELSE /\ last_emit' = [created |-> created, last_beat |-> hb.last_beat,
                                  busy |-> FALSE, beat |-> due]
                 /\ IF due
                    THEN /\ hb' = [hb EXCEPT !.emitting = TRUE]
                         /\ emits' = Append(emits, created)
                    ELSE /\ UNCHANGED <<hb, emits>>
    /\ UNCHANGED beats
    /\ UNCHANGED nonHeartbeatVars

\* beat_func returns: lines 534-536
BeatReturns ==
    /\ emits # <<>>
    /\ hb' = [hb EXCEPT !.last_beat = Top(emits), !.emitting = FALSE]
    /\ beats' = Latest(Append(beats, Top(emits)))
    /\ emits' = Rest(emits)
    /\ UNCHANGED last_emit
    /\ UNCHANGED nonHeartbeatVars

\* beat_func raises: only the finally of lines 535-536 runs
BeatRaises ==
    /\ emits # <<>>
    /\ hb' = [hb EXCEPT !.emitting = FALSE]
    /\ emits' = Rest(emits)
    /\ UNCHANGED <<beats, last_emit>>
    /\ UNCHANGED nonHeartbeatVars

HeartbeatNext ==
    \/ HeartbeatHandler
    \/ emit
    \/ BeatReturns
    \/ BeatRaises

SpecHeartbeat == Init /\ [][HeartbeatNext]_vars

\* C39: beat_func is called for a record only when record.created exceeds
\* the time of the last completed beat by more than min_interval, so the
\* record times of two consecutive completed beats are more than
\* min_interval apart, and a record that arrives while an emit of the same
\* handler is in progress never triggers a beat.
C39_RateLimited ==
    /\ last_emit.beat =>
           /\ last_emit.created - last_emit.last_beat > hb.min_interval
           /\ ~last_emit.busy
    /\ last_emit.busy => ~last_emit.beat
    /\ Len(emits) <= 1
    /\ Len(beats) = 2 => beats[2] - beats[1] > hb.min_interval
    /\ beats # <<>> => hb.last_beat = beats[Len(beats)]

\* two beats completed, and then a record, due by its time, arrived from
\* inside a third beat and was dropped
C39_Witness ==
    /\ Len(beats) = 2 /\ emits # <<>>
    /\ last_emit.busy /\ ~last_emit.beat
    /\ last_emit.created - last_emit.last_beat > hb.min_interval

\* a record too close to the last completed beat did not beat
C39_WitnessTooSoon ==
    /\ beats # <<>> /\ ~last_emit.busy /\ ~last_emit.beat
    /\ last_emit.created > last_emit.last_beat
    /\ hb.min_interval = 2
====
